---- MODULE Spec2Model ----
(***************************************************************************)
(* Model of the student-backend REST service: the JWT credential service,  *)
(* the authentication middleware, the per-handler authorization policy of  *)
(* the student, teacher and group handlers, and the registration / login   *)
(* flow, over a record store seeded by database.Migrate.                   *)
(*                                                                         *)
(* The repository holds several iterations of the same packages.  The      *)
(* model follows the iteration that is wired to the authentication         *)
(* middleware: middleware (unnamed/part_001), auth (handlers/groups.go     *)
(* 324-418), handlers.AuthHandler (server.go), handlers.StudentHandler     *)
(* (unnamed/part_005), handlers.TeacherHandler (handlers/teacher.go),      *)
(* handlers.GroupHandler (handlers/groups.go) and database.Migrate.        *)
(*                                                                         *)
(* Every handler runs in its own goroutine; each store call is atomic.     *)
(* Register and CreateGroup are modelled call by call (their store calls   *)
(* interleave with other requests); the other handlers are modelled as one *)
(* step each.                                                              *)
(* Store calls fail only for the reasons the schema gives (record not      *)
(* found, unique-key violation); connection loss is not modelled.          *)
(* Time is counted in hours.  Phone numbers, timestamps other than         *)
(* users.created_at, and list pagination/filtering carry no decision and   *)
(* are left out.                                                           *)
(***************************************************************************)
EXTENDS Integers, Sequences, FiniteSets, TLC

VARIABLES users, students, teachers, groups, teacherGroups, now, reg, resp, conn

vars == <<users, students, teachers, groups, teacherGroups, now, reg, resp, conn>>

(***************************************************************************)
(* Bounds of the model.                                                    *)
(***************************************************************************)
MaxTime == 2
JWTExpiry == 2
MaxUsers == 4
MaxStudents == 3
MaxTeachers == 2
MaxGroups == 4

(***************************************************************************)
(* Program constants.                                                      *)
(***************************************************************************)
RoleAdmin == "admin"
RoleTeacher == "teacher"
RoleStudent == "student"
Roles == {RoleAdmin, RoleTeacher, RoleStudent}

JWTSecret == "your-secret-key-change-in-production"

StatusOK == 200
StatusCreated == 201
StatusNoContent == 204
StatusBadRequest == 400
StatusUnauthorized == 401
StatusForbidden == 403
StatusNotFound == 404
StatusConflict == 409
StatusInternalServerError == 500

(***************************************************************************)
(* Credential service (package auth).                                      *)
(***************************************************************************)
HashPassword(password) == <<"bcrypt", password>>

CheckPassword(password, hashedPassword) == hashedPassword = HashPassword(password)

\* A request body that has not been decoded.
NoBody == [json |-> FALSE]

NoClaims == [user_id |-> 0, email |-> "", role |-> "", iat |-> 0, exp |-> 0]

\* A token string: wf is whether it parses as a JWT at all, alg its header's
\* algorithm, key the secret it was signed with, then the claims it carries.
MalformedToken ==
    [wf |-> FALSE, alg |-> "", key |-> "", user_id |-> 0, email |-> "",
     role |-> "", iat |-> 0, exp |-> 0]

GenerateTokenMutLate(user, t) ==
    [wf |-> TRUE, alg |-> "HS256", key |-> JWTSecret, user_id |-> user.id,
     email |-> user.email, role |-> user.role, iat |-> t, exp |-> t + JWTExpiry + 1]

GenerateToken(user, t) ==
    [wf |-> TRUE, alg |-> "HS256", key |-> JWTSecret, user_id |-> user.id,
     email |-> user.email, role |-> user.role, iat |-> t, exp |-> t + JWTExpiry]

HMACFamily == {"HS256", "HS384", "HS512"}

ClaimsOf(tok) ==
    [user_id |-> tok.user_id, email |-> tok.email, role |-> tok.role,
     iat |-> tok.iat, exp |-> tok.exp]

\* jwt.ParseWithClaims: a malformed string fails; the key function refuses a
\* non-HMAC method; then the registered claims are validated against the clock
\* and the signature is verified, and every failure is recorded.
ValidateTokenMutAlg(tok, t) ==
    IF ~tok.wf THEN [ok |-> FALSE, claims |-> NoClaims, errs |-> {"malformed"}]
    ELSE LET errs == (IF t >= tok.exp THEN {"expired"} ELSE {})
                     \cup (IF t < tok.iat THEN {"not_valid_yet"} ELSE {})
                     \cup (IF tok.alg \in HMACFamily /\ tok.key # JWTSecret
                           THEN {"signature"} ELSE {})
         IN  [ok |-> errs = {},
              claims |-> IF errs = {} THEN ClaimsOf(tok) ELSE NoClaims,
              errs |-> errs]

ValidateTokenMutExp(tok, t) ==
    IF ~tok.wf THEN [ok |-> FALSE, claims |-> NoClaims, errs |-> {"malformed"}]
    ELSE IF tok.alg \notin HMACFamily
    THEN [ok |-> FALSE, claims |-> NoClaims, errs |-> {"unverifiable"}]
    ELSE LET errs == (IF tok.key # JWTSecret THEN {"signature"} ELSE {})
         IN  [ok |-> errs = {},
              claims |-> IF errs = {} THEN ClaimsOf(tok) ELSE NoClaims,
              errs |-> errs]

ValidateTokenMutSliding(tok, t) ==
    IF ~tok.wf THEN [ok |-> FALSE, claims |-> NoClaims, errs |-> {"malformed"}]
    ELSE IF tok.alg \notin HMACFamily
    THEN [ok |-> FALSE, claims |-> NoClaims, errs |-> {"unverifiable"}]
    ELSE LET errs == (IF t >= tok.exp THEN {"expired"} ELSE {})
                     \cup (IF t < tok.iat THEN {"not_valid_yet"} ELSE {})
                     \cup (IF tok.key # JWTSecret THEN {"signature"} ELSE {})
         IN  [ok |-> errs = {},
              claims |-> IF errs = {}
                         THEN [ClaimsOf(tok) EXCEPT !.exp = t + JWTExpiry]
                         ELSE NoClaims,
              errs |-> errs]

ValidateToken(tok, t) ==
    IF ~tok.wf THEN [ok |-> FALSE, claims |-> NoClaims, errs |-> {"malformed"}]
    ELSE IF tok.alg \notin HMACFamily
    THEN [ok |-> FALSE, claims |-> NoClaims, errs |-> {"unverifiable"}]
    ELSE LET errs == (IF t >= tok.exp THEN {"expired"} ELSE {})
                     \cup (IF t < tok.iat THEN {"not_valid_yet"} ELSE {})
                     \cup (IF tok.key # JWTSecret THEN {"signature"} ELSE {})
         IN  [ok |-> errs = {},
              claims |-> IF errs = {} THEN ClaimsOf(tok) ELSE NoClaims,
              errs |-> errs]

(***************************************************************************)
(* Request text.  An Authorization header is a sequence of chunks: a       *)
(* space, a word without spaces, or a token string.  A path is its         *)
(* sequence of segments.                                                   *)
(***************************************************************************)
SP == [kind |-> "sp", word |-> " ", tok |-> MalformedToken]
W(s) == [kind |-> "word", word |-> s, tok |-> MalformedToken]
T(tok) == [kind |-> "tok", word |-> "", tok |-> tok]

RECURSIVE SplitAcc(_, _, _)
SplitAcc(h, cur, acc) ==
    IF h = <<>> THEN Append(acc, cur)
    ELSE IF Head(h).kind = "sp"
    THEN SplitAcc(Tail(h), <<>>, Append(acc, cur))
    ELSE SplitAcc(Tail(h), Append(cur, Head(h)), acc)

\* strings.Split(authHeader, " ")
Split(h) == SplitAcc(h, <<>>, <<>>)

\* The token string a header part spells.
TokenOf(part) ==
    IF Len(part) = 1 /\ part[1].kind = "tok" THEN part[1].tok ELSE MalformedToken

PathRoot == <<>>
PathHealth == <<"health">>
PathLogin == <<"api", "auth", "login">>
PathRegister == <<"api", "auth", "register">>
PathMe == <<"api", "auth", "me">>
PathStudents == <<"api", "students">>
PathTeachers == <<"api", "teachers">>
PathGroups == <<"api", "groups">>
PathStudent(id) == <<"api", "students", id>>
PathTeacher(id) == <<"api", "teachers", id>>
PathGroup(id) == <<"api", "groups", id>>

\* strings.HasPrefix(path, "/api/auth/")
HasPrefixApiAuth(path) == Len(path) >= 3 /\ path[1] = "api" /\ path[2] = "auth"

publicRoutes == {PathRoot, PathHealth, PathLogin, PathRegister}

\* middleware.IsPublicRoute: the prefix test sits inside the loop over the
\* (never empty) route list, so it applies to every path.
IsPublicRoute(path) == path \in publicRoutes \/ HasPrefixApiAuth(path)

isPublicMutPrefix(path) == path \in publicRoutes \/ HasPrefixApiAuth(path)

\* The inline test of AuthMiddleware: exact matches only.
isPublic(path) == path \in publicRoutes

(***************************************************************************)
(* middleware.AuthMiddleware.  next is whether the next handler is called, *)
(* validated whether ValidateToken was called, claims what                 *)
(* GetUserClaims(r.Context()) returns in the next handler.                 *)
(***************************************************************************)
MwRejectMutFallThrough(msg, validated) ==
    [next |-> TRUE, validated |-> validated, claims |-> NoClaims,
     status |-> StatusUnauthorized, msg |-> msg]

MwReject(msg, validated) ==
    [next |-> FALSE, validated |-> validated, claims |-> NoClaims,
     status |-> StatusUnauthorized, msg |-> msg]

AuthMiddlewareMutScheme(path, header, t) ==
    IF isPublic(path)
    THEN [next |-> TRUE, validated |-> FALSE, claims |-> NoClaims,
          status |-> 0, msg |-> ""]
    ELSE IF header = <<>>
    THEN MwReject("Authorization header required", FALSE)
    ELSE LET bearerToken == Split(header) IN
         IF Len(bearerToken) # 2
         THEN MwReject("Invalid authorization format", FALSE)
         ELSE LET v == ValidateToken(TokenOf(bearerToken[2]), t) IN
              IF ~v.ok
              THEN MwReject("Invalid or expired token", TRUE)
              ELSE [next |-> TRUE, validated |-> TRUE, claims |-> v.claims,
                    status |-> 0, msg |-> ""]

AuthMiddleware(path, header, t) ==
    IF isPublic(path)
    THEN [next |-> TRUE, validated |-> FALSE, claims |-> NoClaims,
          status |-> 0, msg |-> ""]
    ELSE IF header = <<>>
    THEN MwReject("Authorization header required", FALSE)
    ELSE LET bearerToken == Split(header) IN
         IF Len(bearerToken) # 2 \/ bearerToken[1] # <<W("Bearer")>>
         THEN MwReject("Invalid authorization format", FALSE)
         ELSE LET v == ValidateToken(TokenOf(bearerToken[2]), t) IN
              IF ~v.ok
              THEN MwReject("Invalid or expired token", TRUE)
              ELSE [next |-> TRUE, validated |-> TRUE, claims |-> v.claims,
                    status |-> 0, msg |-> ""]

\* mux.Router on a path whose routes are all registered for other methods:
\* it answers 405 itself, and neither the middleware nor a handler runs.
MethodNotAllowed ==
    [next |-> FALSE, validated |-> FALSE, claims |-> NoClaims,
     status |-> 405, msg |-> ""]

\* The handler setupRoutes registers for a method on /api/teachers/{id}, ""
\* when there is none.
TeacherItemRoute(method) ==
    CASE method \in {"PUT", "PATCH"} -> "UpdateTeacher"
      [] method = "DELETE" -> "DeleteTeacher"
      [] OTHER -> ""

\* context.WithValue(ctx, userClaimsKey, claims): a new context whose value
\* under the key is claims; the context it was derived from is not touched.
\* A context is the value it holds under userClaimsKey (NoClaims for none).
SetUserClaims(ctx, claims) == claims

GetUserClaimsMutShared(ctx) ==
    LET S == {q \in DOMAIN conn : conn[q].ctx # NoClaims}
    IN  IF S = {} THEN NoClaims ELSE conn[CHOOSE q \in S : TRUE].ctx

\* ctx.Value(userClaimsKey).(*auth.JWTClaims), nil when there is none.
GetUserClaims(ctx) == ctx

\* A request being served by its goroutine: pc is where it is ("mw" inside
\* AuthMiddleware, "handler" inside next.ServeHTTP, "done" when ServeHTTP has
\* returned), ctx the request context, sets the number of SetUserClaims
\* calls, nextCalls the number of next.ServeHTTP calls, written the statuses
\* written to its ResponseWriter.
IdleConn ==
    [pc |-> "idle", path |-> PathRoot, header |-> <<>>, ctx |-> NoClaims,
     sets |-> 0, nextCalls |-> 0, written |-> <<>>, body |-> NoBody]

\* The body of the middleware's HandlerFunc run on request c at time t, up to
\* and including the call of next.ServeHTTP (lines 23-75).
ServeAuth(c, t) ==
    LET mw == AuthMiddleware(c.path, c.header, t) IN
    [c EXCEPT !.pc = IF mw.next THEN "handler" ELSE "done",
              !.ctx = IF mw.next /\ mw.validated
                      THEN SetUserClaims(@, mw.claims) ELSE @,
              !.sets = IF mw.next /\ mw.validated THEN @ + 1 ELSE @,
              !.nextCalls = IF mw.next THEN @ + 1 ELSE @,
              !.written = IF mw.status # 0 THEN Append(@, mw.status) ELSE @]

(***************************************************************************)
(* The record store.  A table is the sequence of its rows in primary-key   *)
(* order (ids are issued 1, 2, ... and never reused); students, teachers   *)
(* and groups are soft-deleted (gorm.DeletedAt), so a deleted row stays in *)
(* the table, invisible to queries but still held by unique indexes.       *)
(***************************************************************************)
Store ==
    [users |-> users, students |-> students, teachers |-> teachers,
     groups |-> groups, teacherGroups |-> teacherGroups]

Live(tbl) == {i \in 1..Len(tbl) : ~tbl[i].deleted}

Min(S) == CHOOSE x \in S : \A y \in S : x <= y

\* strconv.Atoi on the path ids the requests use.
AtoiTable ==
    [s \in {"1", "2", "3", "4", "5", "02", "-1"} |->
        CASE s = "1" -> 1 [] s = "2" -> 2 [] s = "3" -> 3 [] s = "4" -> 4
          [] s = "5" -> 5 [] s = "02" -> 2 [] s = "-1" -> 0 - 1]

Atoi(s) ==
    IF s \in DOMAIN AtoiTable THEN [ok |-> TRUE, val |-> AtoiTable[s]]
    ELSE [ok |-> FALSE, val |-> 0]

NoData == [none |-> TRUE]

\* What a handler did: the response it wrote, the steps it took (claims
\* lookup, role test, path-id and body parsing, store calls) and the store
\* it left.
Res(status, msg, trace, st, data) ==
    [status |-> status, msg |-> msg, trace |-> trace, st |-> st, data |-> data]

(***************************************************************************)
(* handlers.StudentHandler (unnamed/part_005).                             *)
(***************************************************************************)
\* The rows a student-role caller owns: user_id = claims.UserID.
LinkedStudents(st, uid) ==
    {i \in Live(st.students) : st.students[i].user_id = uid}

GetStudentsMutOwnOnly(st, claims) ==
    IF claims = NoClaims
    THEN Res(StatusUnauthorized, "Not authenticated", <<"claims">>, st, NoData)
    ELSE LET shown == IF claims.role = RoleStudent
                      THEN LinkedStudents(st, claims.user_id)
                      ELSE Live(st.students)
         IN  Res(StatusOK, "", <<"claims", "db.Count", "db.Find">>, st,
                 [items |-> [i \in shown |-> st.students[i]],
                  total |-> Cardinality(shown)])

GetStudents(st, claims) ==
    IF claims = NoClaims
    THEN Res(StatusUnauthorized, "Not authenticated", <<"claims">>, st, NoData)
    ELSE Res(StatusOK, "", <<"claims", "db.Count", "db.Find">>, st,
             [items |-> [i \in Live(st.students) |-> st.students[i]],
              total |-> Cardinality(Live(st.students))])

\* db.Create(&student): the body may carry user_id, which is unique over
\* all rows, soft-deleted ones included.
StudentInsertFails(st, body) ==
    body.user_id # 0 /\ \E i \in 1..Len(st.students) : st.students[i].user_id = body.user_id

CreateStudentMutNoRole(st, claims, body) ==
    IF claims = NoClaims
    THEN Res(StatusUnauthorized, "Not authenticated", <<"claims">>, st, NoData)
    ELSE IF ~body.json
    THEN Res(StatusBadRequest, "Invalid JSON format", <<"claims", "body">>, st, NoData)
    ELSE IF body.name = "" \/ body.surname = ""
    THEN Res(StatusBadRequest, "Name and surname are required",
             <<"claims", "body", "validate">>, st, NoData)
    ELSE LET id == Len(st.students) + 1
             row == [id |-> id, name |-> body.name, surname |-> body.surname,
                     email |-> "", group_id |-> 0, user_id |-> body.user_id,
                     deleted |-> FALSE]
         IN  Res(StatusCreated, "", <<"claims", "body", "validate", "db.Create">>,
                 [st EXCEPT !.students = Append(@, row)], [id |-> id])

CreateStudentMutLeak(st, claims, body) ==
    IF claims = NoClaims
    THEN Res(StatusUnauthorized, "Not authenticated", <<"claims">>, st, NoData)
    ELSE IF claims.role # RoleAdmin
    THEN Res(StatusForbidden, "Insufficient permissions", <<"claims", "role">>, st, NoData)
    ELSE IF ~body.json
    THEN Res(StatusBadRequest, "Invalid JSON format",
             <<"claims", "role", "body">>, st, NoData)
    ELSE IF body.name = "" \/ body.surname = ""
    THEN Res(StatusBadRequest, "Name and surname are required",
             <<"claims", "role", "body", "validate">>, st, NoData)
    ELSE IF StudentInsertFails(st, body)
    THEN Res(StatusInternalServerError,
             "ERROR: duplicate key value violates unique constraint",
             <<"claims", "role", "body", "validate", "db.Create">>, st, NoData)
    ELSE LET id == Len(st.students) + 1
             row == [id |-> id, name |-> body.name, surname |-> body.surname,
                     email |-> "", group_id |-> 0, user_id |-> body.user_id,
                     deleted |-> FALSE]
         IN  Res(StatusCreated, "",
                 <<"claims", "role", "body", "validate", "db.Create">>,
                 [st EXCEPT !.students = Append(@, row)], [id |-> id])

CreateStudent(st, claims, body) ==
    IF claims = NoClaims
    THEN Res(StatusUnauthorized, "Not authenticated", <<"claims">>, st, NoData)
    ELSE IF claims.role # RoleAdmin
    THEN Res(StatusForbidden, "Insufficient permissions", <<"claims", "role">>, st, NoData)
    ELSE IF ~body.json
    THEN Res(StatusBadRequest, "Invalid JSON format",
             <<"claims", "role", "body">>, st, NoData)
    ELSE IF body.name = "" \/ body.surname = ""
    THEN Res(StatusBadRequest, "Name and surname are required",
             <<"claims", "role", "body", "validate">>, st, NoData)
    ELSE IF StudentInsertFails(st, body)
    THEN Res(StatusInternalServerError, "Failed to create student in database",
             <<"claims", "role", "body", "validate", "db.Create">>, st, NoData)
    ELSE LET id == Len(st.students) + 1
             row == [id |-> id, name |-> body.name, surname |-> body.surname,
                     email |-> "", group_id |-> 0, user_id |-> body.user_id,
                     deleted |-> FALSE]
         IN  Res(StatusCreated, "",
                 <<"claims", "role", "body", "validate", "db.Create">>,
                 [st EXCEPT !.students = Append(@, row)], [id |-> id])

StudentOwnershipMutUnscoped(st, claims, id) ==
    LET linked == {i \in 1..Len(st.students) : st.students[i].user_id = claims.user_id}
    IN  IF linked = {}
        THEN "Student record not found"
        ELSE IF id # Min(linked)
        THEN "Can only edit your own data"
        ELSE ""

\* The ownership test of UpdateStudent for a student-role caller: "" when
\* the caller may go on, else the 403 message.
StudentOwnership(st, claims, id) ==
    IF LinkedStudents(st, claims.user_id) = {}
    THEN "Student record not found"
    ELSE IF id # Min(LinkedStudents(st, claims.user_id))
    THEN "Can only edit your own data"
    ELSE ""

UpdateStudentMutOverpost(st, claims, idstr, body) ==
    IF claims = NoClaims
    THEN Res(StatusUnauthorized, "Not authenticated", <<"claims">>, st, NoData)
    ELSE LET a == Atoi(idstr) IN
    IF ~a.ok
    THEN Res(StatusBadRequest, "Invalid student ID", <<"claims", "atoi">>, st, NoData)
    ELSE LET id == a.val
             own == IF claims.role = RoleStudent
                    THEN StudentOwnership(st, claims, id) ELSE ""
             t1 == IF claims.role = RoleStudent
                   THEN <<"claims", "atoi", "role", "db.First">>
                   ELSE <<"claims", "atoi", "role">>
         IN
    IF own # ""
    THEN Res(StatusForbidden, own, t1, st, NoData)
    ELSE IF ~body.json
    THEN Res(StatusBadRequest, "Invalid request body", t1 \o <<"body">>, st, NoData)
    ELSE IF body.name = "" \/ body.surname = ""
    THEN Res(StatusBadRequest, "Name and surname are required",
             t1 \o <<"body", "validate">>, st, NoData)
    ELSE IF id \notin Live(st.students)
    THEN Res(StatusNotFound, "Student not found",
             t1 \o <<"body", "validate", "db.First">>, st, NoData)
    ELSE Res(StatusOK, "",
             t1 \o <<"body", "validate", "db.First", "db.Updates", "db.First">>,
             [st EXCEPT !.students[id].name = body.name,
                        !.students[id].surname = body.surname,
                        !.students[id].user_id =
                            IF body.user_id # 0 THEN body.user_id ELSE @],
             [id |-> id])

UpdateStudent(st, claims, idstr, body) ==
    IF claims = NoClaims
    THEN Res(StatusUnauthorized, "Not authenticated", <<"claims">>, st, NoData)
    ELSE LET a == Atoi(idstr) IN
    IF ~a.ok
    THEN Res(StatusBadRequest, "Invalid student ID", <<"claims", "atoi">>, st, NoData)
    ELSE LET id == a.val
             own == IF claims.role = RoleStudent
                    THEN StudentOwnership(st, claims, id) ELSE ""
             t1 == IF claims.role = RoleStudent
                   THEN <<"claims", "atoi", "role", "db.First">>
                   ELSE <<"claims", "atoi", "role">>
         IN
    IF own # ""
    THEN Res(StatusForbidden, own, t1, st, NoData)
    ELSE IF ~body.json
    THEN Res(StatusBadRequest, "Invalid request body", t1 \o <<"body">>, st, NoData)
    ELSE IF body.name = "" \/ body.surname = ""
    THEN Res(StatusBadRequest, "Name and surname are required",
             t1 \o <<"body", "validate">>, st, NoData)
    ELSE IF id \notin Live(st.students)
    THEN Res(StatusNotFound, "Student not found",
             t1 \o <<"body", "validate", "db.First">>, st, NoData)
    ELSE Res(StatusOK, "",
             t1 \o <<"body", "validate", "db.First", "db.Updates", "db.First">>,
             [st EXCEPT !.students[id].name = body.name,
                        !.students[id].surname = body.surname],
             [id |-> id])

DeleteStudent(st, claims, idstr) ==
    IF claims = NoClaims
    THEN Res(StatusUnauthorized, "Not authenticated", <<"claims">>, st, NoData)
    ELSE IF claims.role # RoleAdmin
    THEN Res(StatusForbidden, "Insufficient permissions", <<"claims", "role">>, st, NoData)
    ELSE LET a == Atoi(idstr) IN
    IF ~a.ok
    THEN Res(StatusBadRequest, "Invalid student ID",
             <<"claims", "role", "atoi">>, st, NoData)
    ELSE IF a.val \notin Live(st.students)
    THEN Res(StatusNotFound, "Student not found",
             <<"claims", "role", "atoi", "db.First">>, st, NoData)
    ELSE Res(StatusNoContent, "",
             <<"claims", "role", "atoi", "db.First", "db.Delete">>,
             [st EXCEPT !.students[a.val].deleted = TRUE], [id |-> a.val])

(***************************************************************************)
(* handlers.TeacherHandler (handlers/teacher.go).                          *)
(***************************************************************************)
GetTeachers(st, claims) ==
    IF claims = NoClaims
    THEN Res(StatusUnauthorized, "Not authenticated", <<"claims">>, st, NoData)
    ELSE IF claims.role # RoleAdmin
    THEN Res(StatusForbidden, "Insufficient permissions", <<"claims", "role">>, st, NoData)
    ELSE Res(StatusOK, "", <<"claims", "role", "db.Count", "db.Find">>, st,
             [items |-> [i \in Live(st.teachers) |-> st.teachers[i]],
              total |-> Cardinality(Live(st.teachers))])

\* teachers.email is unique over all rows, soft-deleted ones included.
TeacherEmailTaken(st, email, except) ==
    \E i \in 1..Len(st.teachers) : i # except /\ st.teachers[i].email = email

CreateTeacher(st, claims, body) ==
    IF claims = NoClaims
    THEN Res(StatusUnauthorized, "Not authenticated", <<"claims">>, st, NoData)
    ELSE IF claims.role # RoleAdmin
    THEN Res(StatusForbidden, "Insufficient permissions", <<"claims", "role">>, st, NoData)
    ELSE IF ~body.json
    THEN Res(StatusBadRequest, "Invalid JSON format",
             <<"claims", "role", "body">>, st, NoData)
    ELSE IF body.name = "" \/ body.surname = "" \/ body.email = ""
    THEN Res(StatusBadRequest, "Name, surname and email are required",
             <<"claims", "role", "body", "validate">>, st, NoData)
    ELSE IF \E i \in Live(st.teachers) : st.teachers[i].email = body.email
    THEN Res(StatusConflict, "Teacher with this email already exists",
             <<"claims", "role", "body", "validate", "db.First">>, st, NoData)
    ELSE IF TeacherEmailTaken(st, body.email, 0)
    THEN Res(StatusInternalServerError, "Failed to create teacher in database",
             <<"claims", "role", "body", "validate", "db.First", "db.Create">>,
             st, NoData)
    ELSE LET id == Len(st.teachers) + 1
             row == [id |-> id, name |-> body.name, surname |-> body.surname,
                     email |-> body.email, user_id |-> 0, deleted |-> FALSE]
         IN  Res(StatusCreated, "",
                 <<"claims", "role", "body", "validate", "db.First", "db.Create">>,
                 [st EXCEPT !.teachers = Append(@, row)], [id |-> id])

\* Association("Groups").Replace(&groups): the teacher's rows of the join
\* table become the groups found for the ids (> 0) the body names.
ReplaceGroups(st, id, ids) ==
    LET found == {g \in Live(st.groups) : g \in ids /\ g > 0}
    IN  [st EXCEPT !.teacherGroups =
            {tg \in @ : tg[1] # id} \cup {<<id, g>> : g \in found}]

UpdateTeacherMutUnscoped(st, claims, idstr, body) ==
    IF claims = NoClaims
    THEN Res(StatusUnauthorized, "Not authenticated", <<"claims">>, st, NoData)
    ELSE IF claims.role # RoleAdmin
    THEN Res(StatusForbidden, "Insufficient permissions", <<"claims", "role">>, st, NoData)
    ELSE LET a == Atoi(idstr) IN
    IF ~a.ok
    THEN Res(StatusBadRequest, "Invalid teacher ID",
             <<"claims", "role", "atoi">>, st, NoData)
    ELSE IF a.val \notin 1..Len(st.teachers)
    THEN Res(StatusNotFound, "Teacher not found",
             <<"claims", "role", "atoi", "db.First">>, st, NoData)
    ELSE IF ~body.json
    THEN Res(StatusBadRequest, "Invalid request body",
             <<"claims", "role", "atoi", "db.First", "body">>, st, NoData)
    ELSE LET id == a.val
             t1 == <<"claims", "role", "atoi", "db.First", "body">>
             st1 == IF body.groups.present
                    THEN ReplaceGroups(st, id, body.groups.ids) ELSE st
             t2 == IF body.groups.present
                   THEN t1 \o <<"db.Find", "db.Replace">> ELSE t1
         IN
    IF TeacherEmailTaken(st1, body.email, id)
    THEN Res(StatusInternalServerError, "Failed to update teacher",
             t2 \o <<"db.Save">>, st1, NoData)
    ELSE Res(StatusOK, "", t2 \o <<"db.Save", "db.First">>,
             [st1 EXCEPT !.teachers[id].name = body.name,
                         !.teachers[id].surname = body.surname,
                         !.teachers[id].email = body.email],
             [id |-> id])

UpdateTeacher(st, claims, idstr, body) ==
    IF claims = NoClaims
    THEN Res(StatusUnauthorized, "Not authenticated", <<"claims">>, st, NoData)
    ELSE IF claims.role # RoleAdmin
    THEN Res(StatusForbidden, "Insufficient permissions", <<"claims", "role">>, st, NoData)
    ELSE LET a == Atoi(idstr) IN
    IF ~a.ok
    THEN Res(StatusBadRequest, "Invalid teacher ID",
             <<"claims", "role", "atoi">>, st, NoData)
    ELSE IF a.val \notin Live(st.teachers)
    THEN Res(StatusNotFound, "Teacher not found",
             <<"claims", "role", "atoi", "db.First">>, st, NoData)
    ELSE IF ~body.json
    THEN Res(StatusBadRequest, "Invalid request body",
             <<"claims", "role", "atoi", "db.First", "body">>, st, NoData)
    ELSE LET id == a.val
             t1 == <<"claims", "role", "atoi", "db.First", "body">>
             st1 == IF body.groups.present
                    THEN ReplaceGroups(st, id, body.groups.ids) ELSE st
             t2 == IF body.groups.present
                   THEN t1 \o <<"db.Find", "db.Replace">> ELSE t1
         IN
    IF TeacherEmailTaken(st1, body.email, id)
    THEN Res(StatusInternalServerError, "Failed to update teacher",
             t2 \o <<"db.Save">>, st1, NoData)
    ELSE Res(StatusOK, "", t2 \o <<"db.Save", "db.First">>,
             [st1 EXCEPT !.teachers[id].name = body.name,
                         !.teachers[id].surname = body.surname,
                         !.teachers[id].email = body.email],
             [id |-> id])

DeleteTeacherMutAtoiFirst(st, claims, idstr) ==
    IF claims = NoClaims
    THEN Res(StatusUnauthorized, "Not authenticated", <<"claims">>, st, NoData)
    ELSE LET a == Atoi(idstr) IN
    IF ~a.ok
    THEN Res(StatusBadRequest, "Invalid teacher ID", <<"claims", "atoi">>, st, NoData)
    ELSE IF claims.role # RoleAdmin
    THEN Res(StatusForbidden, "Insufficient permissions",
             <<"claims", "atoi", "role">>, st, NoData)
    ELSE IF a.val \notin Live(st.teachers)
    THEN Res(StatusNotFound, "Teacher not found",
             <<"claims", "atoi", "role", "db.First">>, st, NoData)
    ELSE Res(StatusNoContent, "",
             <<"claims", "atoi", "role", "db.First", "db.Delete">>,
             [st EXCEPT !.teachers[a.val].deleted = TRUE], [id |-> a.val])

DeleteTeacher(st, claims, idstr) ==
    IF claims = NoClaims
    THEN Res(StatusUnauthorized, "Not authenticated", <<"claims">>, st, NoData)
    ELSE IF claims.role # RoleAdmin
    THEN Res(StatusForbidden, "Insufficient permissions", <<"claims", "role">>, st, NoData)
    ELSE LET a == Atoi(idstr) IN
    IF ~a.ok
    THEN Res(StatusBadRequest, "Invalid teacher ID",
             <<"claims", "role", "atoi">>, st, NoData)
    ELSE IF a.val \notin Live(st.teachers)
    THEN Res(StatusNotFound, "Teacher not found",
             <<"claims", "role", "atoi", "db.First">>, st, NoData)
    ELSE Res(StatusNoContent, "",
             <<"claims", "role", "atoi", "db.First", "db.Delete">>,
             [st EXCEPT !.teachers[a.val].deleted = TRUE], [id |-> a.val])

(***************************************************************************)
(* handlers.GroupHandler (handlers/groups.go).                             *)
(***************************************************************************)
GetGroups(st, claims) ==
    IF claims = NoClaims
    THEN Res(StatusUnauthorized, "Not authenticated", <<"claims">>, st, NoData)
    ELSE IF claims.role # RoleAdmin
    THEN Res(StatusForbidden, "Insufficient permissions", <<"claims", "role">>, st, NoData)
    ELSE Res(StatusOK, "", <<"claims", "role", "db.Count", "db.Find">>, st,
             [total |-> Cardinality(Live(st.groups))])

\* groups.code is unique over all rows, soft-deleted ones included.
GroupCodeTaken(st, code, except) ==
    \E i \in 1..Len(st.groups) : i # except /\ st.groups[i].code = code

CreateGroup(st, claims, body) ==
    IF claims = NoClaims
    THEN Res(StatusUnauthorized, "Not authenticated", <<"claims">>, st, NoData)
    ELSE IF claims.role # RoleAdmin
    THEN Res(StatusForbidden, "Insufficient permissions", <<"claims", "role">>, st, NoData)
    ELSE IF ~body.json
    THEN Res(StatusBadRequest, "Invalid JSON format",
             <<"claims", "role", "body">>, st, NoData)
    ELSE IF body.name = "" \/ body.code = ""
    THEN Res(StatusBadRequest, "Name and code are required",
             <<"claims", "role", "body", "validate">>, st, NoData)
    ELSE IF \E i \in Live(st.groups) : st.groups[i].code = body.code
    THEN Res(StatusConflict, "Group with this code already exists",
             <<"claims", "role", "body", "validate", "db.First">>, st, NoData)
    ELSE IF GroupCodeTaken(st, body.code, 0)
    THEN Res(StatusInternalServerError, "Failed to create group in database",
             <<"claims", "role", "body", "validate", "db.First", "db.Create">>,
             st, NoData)
    ELSE LET id == Len(st.groups) + 1
             row == [id |-> id, name |-> body.name, code |-> body.code,
                     deleted |-> FALSE]
         IN  Res(StatusCreated, "",
                 <<"claims", "role", "body", "validate", "db.First", "db.Create">>,
                 [st EXCEPT !.groups = Append(@, row)], [id |-> id])

UpdateGroup(st, claims, idstr, body) ==
    IF claims = NoClaims
    THEN Res(StatusUnauthorized, "Not authenticated", <<"claims">>, st, NoData)
    ELSE IF claims.role # RoleAdmin
    THEN Res(StatusForbidden, "Insufficient permissions", <<"claims", "role">>, st, NoData)
    ELSE LET a == Atoi(idstr) IN
    IF ~a.ok
    THEN Res(StatusBadRequest, "Invalid group ID",
             <<"claims", "role", "atoi">>, st, NoData)
    ELSE IF ~body.json
    THEN Res(StatusBadRequest, "Invalid request body",
             <<"claims", "role", "atoi", "body">>, st, NoData)
    ELSE IF body.name = "" \/ body.code = ""
    THEN Res(StatusBadRequest, "Name and code are required",
             <<"claims", "role", "atoi", "body", "validate">>, st, NoData)
    ELSE LET id == a.val
             t1 == <<"claims", "role", "atoi", "body", "validate", "db.First">>
         IN
    IF id \notin Live(st.groups)
    THEN Res(StatusNotFound, "Group not found", t1, st, NoData)
    ELSE IF body.code # st.groups[id].code
            /\ \E i \in Live(st.groups) : i # id /\ st.groups[i].code = body.code
    THEN Res(StatusConflict, "Code already in use by another group",
             t1 \o <<"db.First">>, st, NoData)
    ELSE LET t2 == IF body.code # st.groups[id].code
                   THEN t1 \o <<"db.First", "db.Save">> ELSE t1 \o <<"db.Save">>
         IN
    IF GroupCodeTaken(st, body.code, id)
    THEN Res(StatusInternalServerError, "Internal server error", t2, st, NoData)
    ELSE Res(StatusOK, "", t2 \o <<"db.First">>,
             [st EXCEPT !.groups[id].name = body.name,
                        !.groups[id].code = body.code],
             [id |-> id])

\* CreateGroup, lines 171-185: db.Create(&group) and the answer.
InsertGroup(st, body) ==
    IF GroupCodeTaken(st, body.code, 0)
    THEN Res(StatusInternalServerError, "Failed to create group in database",
             <<"claims", "role", "body", "validate", "db.First", "db.Create">>,
             st, NoData)
    ELSE LET id == Len(st.groups) + 1
             row == [id |-> id, name |-> body.name, code |-> body.code,
                     deleted |-> FALSE]
         IN  Res(StatusCreated, "",
                 <<"claims", "role", "body", "validate", "db.First", "db.Create">>,
                 [st EXCEPT !.groups = Append(@, row)], [id |-> id])

DeleteGroupMutNoRole(st, claims, idstr) ==
    IF claims = NoClaims
    THEN Res(StatusUnauthorized, "Not authenticated", <<"claims">>, st, NoData)
    ELSE LET a == Atoi(idstr) IN
    IF ~a.ok
    THEN Res(StatusBadRequest, "Invalid group ID", <<"claims", "atoi">>, st, NoData)
    ELSE IF a.val \notin Live(st.groups)
    THEN Res(StatusNotFound, "Group not found",
             <<"claims", "atoi", "db.First">>, st, NoData)
    ELSE Res(StatusNoContent, "", <<"claims", "atoi", "db.First", "db.Delete">>,
             [st EXCEPT !.groups[a.val].deleted = TRUE], [id |-> a.val])

DeleteGroup(st, claims, idstr) ==
    IF claims = NoClaims
    THEN Res(StatusUnauthorized, "Not authenticated", <<"claims">>, st, NoData)
    ELSE IF claims.role # RoleAdmin
    THEN Res(StatusForbidden, "Insufficient permissions", <<"claims", "role">>, st, NoData)
    ELSE LET a == Atoi(idstr) IN
    IF ~a.ok
    THEN Res(StatusBadRequest, "Invalid group ID",
             <<"claims", "role", "atoi">>, st, NoData)
    ELSE IF a.val \notin Live(st.groups)
    THEN Res(StatusNotFound, "Group not found",
             <<"claims", "role", "atoi", "db.First">>, st, NoData)
    ELSE Res(StatusNoContent, "",
             <<"claims", "role", "atoi", "db.First", "db.Delete">>,
             [st EXCEPT !.groups[a.val].deleted = TRUE], [id |-> a.val])

(***************************************************************************)
(* handlers.AuthHandler (server.go).                                       *)
(***************************************************************************)
UserByEmail(st, email) == {i \in 1..Len(st.users) : st.users[i].email = email}

\* user.Password = "" before the user is encoded into a response.
HidePassword(user) == [user EXCEPT !.password = <<>>]

LoginMutAdminToken(st, body, t) ==
    IF ~body.json
    THEN Res(StatusBadRequest, "Invalid request body", <<"body">>, st, NoData)
    ELSE IF UserByEmail(st, body.email) = {}
    THEN Res(StatusUnauthorized, "Invalid email or password",
             <<"body", "db.First">>, st, NoData)
    ELSE LET user == st.users[Min(UserByEmail(st, body.email))] IN
    IF ~CheckPassword(body.password, user.password)
    THEN Res(StatusUnauthorized, "Invalid email or password",
             <<"body", "db.First", "password">>, st, NoData)
    ELSE Res(StatusOK, "", <<"body", "db.First", "password", "token">>, st,
             [token |-> GenerateToken(st.users[1], t), user |-> HidePassword(user)])

LoginMutWrongPasswordMsg(st, body, t) ==
    IF ~body.json
    THEN Res(StatusBadRequest, "Invalid request body", <<"body">>, st, NoData)
    ELSE IF UserByEmail(st, body.email) = {}
    THEN Res(StatusUnauthorized, "Invalid email or password",
             <<"body", "db.First">>, st, NoData)
    ELSE LET user == st.users[Min(UserByEmail(st, body.email))] IN
    IF ~CheckPassword(body.password, user.password)
    THEN Res(StatusUnauthorized, "Wrong password",
             <<"body", "db.First", "password">>, st, NoData)
    ELSE Res(StatusOK, "", <<"body", "db.First", "password", "token">>, st,
             [token |-> GenerateToken(user, t), user |-> HidePassword(user)])

Login(st, body, t) ==
    IF ~body.json
    THEN Res(StatusBadRequest, "Invalid request body", <<"body">>, st, NoData)
    ELSE IF UserByEmail(st, body.email) = {}
    THEN Res(StatusUnauthorized, "Invalid email or password",
             <<"body", "db.First">>, st, NoData)
    ELSE LET user == st.users[Min(UserByEmail(st, body.email))] IN
    IF ~CheckPassword(body.password, user.password)
    THEN Res(StatusUnauthorized, "Invalid email or password",
             <<"body", "db.First", "password">>, st, NoData)
    ELSE Res(StatusOK, "", <<"body", "db.First", "password", "token">>, st,
             [token |-> GenerateToken(user, t), user |-> HidePassword(user)])

GetCurrentUserMutGone(st, claims) ==
    IF claims = NoClaims \/ claims.user_id \notin 1..Len(st.users)
    THEN Res(StatusUnauthorized, "Not authenticated", <<"claims">>, st, NoData)
    ELSE Res(StatusOK, "", <<"claims", "db.First">>, st,
             [user |-> HidePassword(st.users[claims.user_id])])

GetCurrentUser(st, claims) ==
    IF claims = NoClaims
    THEN Res(StatusUnauthorized, "Not authenticated", <<"claims">>, st, NoData)
    ELSE IF claims.user_id \notin 1..Len(st.users)
    THEN Res(StatusNotFound, "User not found", <<"claims", "db.First">>, st, NoData)
    ELSE Res(StatusOK, "", <<"claims", "db.First">>, st,
             [user |-> HidePassword(st.users[claims.user_id])])

\* Register, lines 103-131: decode, look the email up, hash the password.
\* next is the position the request goes on from ("" when it has answered).
RegisterCheckMutNoLookup(st, body) ==
    IF ~body.json
    THEN [next |-> "", status |-> StatusBadRequest, msg |-> "Invalid request body"]
    ELSE [next |-> IF body.role \in {RoleStudent, RoleTeacher} THEN "link" ELSE "user",
          status |-> 0, msg |-> ""]

RegisterCheck(st, body) ==
    IF ~body.json
    THEN [next |-> "", status |-> StatusBadRequest, msg |-> "Invalid request body"]
    ELSE IF UserByEmail(st, body.email) # {}
    THEN [next |-> "", status |-> StatusConflict,
          msg |-> "User with this email already exists"]
    ELSE [next |-> IF body.role \in {RoleStudent, RoleTeacher} THEN "link" ELSE "user",
          status |-> 0, msg |-> ""]

\* Register, lines 133-162: the placeholder Student or Teacher row.
NewStudent(st, email) ==
    [id |-> Len(st.students) + 1, name |-> "New", surname |-> "Student",
     email |-> email, group_id |-> 0, user_id |-> 0, deleted |-> FALSE]

NewTeacher(st, email) ==
    [id |-> Len(st.teachers) + 1, name |-> "New", surname |-> "Teacher",
     email |-> email, user_id |-> 0, deleted |-> FALSE]

\* Register, lines 126-131 and 147/161: the User row to insert.
NewUser(st, body, linked, t) ==
    [id |-> Len(st.users) + 1, email |-> body.email,
     password |-> HashPassword(body.password), role |-> body.role,
     student_id |-> IF body.role = RoleStudent THEN linked ELSE 0,
     teacher_id |-> IF body.role = RoleTeacher THEN linked ELSE 0,
     created_at |-> t]

\* Register, lines 171-177: Update("user_id", user.ID) on the placeholder;
\* a soft-deleted row is not matched and the error is not looked at.
Backfill(st, role, linked, uid) ==
    IF role = RoleStudent /\ linked \in Live(st.students)
    THEN [st EXCEPT !.students[linked].user_id = uid]
    ELSE IF role = RoleTeacher /\ linked \in Live(st.teachers)
    THEN [st EXCEPT !.teachers[linked].user_id = uid]
    ELSE st

(***************************************************************************)
(* Initial state: the store as database.Migrate seeds it at every start    *)
(* (it drops and recreates all tables), no request in flight.              *)
(***************************************************************************)
Procs == {"p1", "p2"}

IdleReg == [pc |-> "idle", body |-> NoBody, linked |-> 0, uid |-> 0]

NoResp ==
    [op |-> "none", proc |-> "", req |-> [path |-> PathRoot, header |-> <<>>],
     next |-> FALSE, validated |-> FALSE, claims |-> NoClaims,
     status |-> 0, msg |-> "", trace |-> <<>>, data |-> NoData]

\* The seeded names are written in Latin letters.
seedInitialData ==
    [users |->
        << [id |-> 1, email |-> "admin@example.com",
            password |-> HashPassword("admin123"), role |-> RoleAdmin,
            student_id |-> 0, teacher_id |-> 0, created_at |-> 0],
           [id |-> 2, email |-> "student@example.com",
            password |-> HashPassword("student123"), role |-> RoleStudent,
            student_id |-> 1, teacher_id |-> 0, created_at |-> 0],
           [id |-> 3, email |-> "teacher@example.com",
            password |-> HashPassword("teacher123"), role |-> RoleTeacher,
            student_id |-> 0, teacher_id |-> 1, created_at |-> 0] >>,
     students |->
        << [id |-> 1, name |-> "Ivan", surname |-> "Ivanov",
            email |-> "student@example.com", group_id |-> 1, user_id |-> 2,
            deleted |-> FALSE] >>,
     teachers |->
        << [id |-> 1, name |-> "Petr", surname |-> "Petrov",
            email |-> "teacher@example.com", user_id |-> 3, deleted |-> FALSE] >>,
     groups |->
        << [id |-> 1, name |-> "Informatics 101", code |-> "INF-101", deleted |-> FALSE],
           [id |-> 2, name |-> "Mathematics 201", code |-> "MATH-201", deleted |-> FALSE],
           [id |-> 3, name |-> "Physics 301", code |-> "PHYS-301", deleted |-> FALSE] >>,
     teacherGroups |-> {}]

Init ==
    /\ users = seedInitialData.users
    /\ students = seedInitialData.students
    /\ teachers = seedInitialData.teachers
    /\ groups = seedInitialData.groups
    /\ teacherGroups = seedInitialData.teacherGroups
    /\ now = 0
    /\ reg = [p \in Procs |-> IdleReg]
    /\ resp = NoResp
    /\ conn = [p \in Procs |-> IdleConn]

(***************************************************************************)
(* The requests the model sends.                                           *)
(***************************************************************************)
Bearer(tok) == <<W("Bearer"), SP, T(tok)>>

\* Tokens the service has been able to issue by now: Login signs one for any
\* stored user at any time since the user was created.  Requests carry the
\* fresh ones and the ones that have just run out.
IssuedTokens ==
    {GenerateToken(users[i], t) :
        i \in 1..Len(users),
        t \in {x \in {now - JWTExpiry, now} : x >= 0}}

UsableTokens == {tok \in IssuedTokens : tok.iat >= users[tok.user_id].created_at}

\* Tokens made outside the service: an admin's claims under a foreign key,
\* under no signature at all, under an asymmetric algorithm.
ForgedKey == [GenerateToken(users[1], now) EXCEPT !.key = "attacker-key"]
ForgedNone == [GenerateToken(users[1], now) EXCEPT !.key = "", !.alg = "none"]
ForgedRS == [GenerateToken(users[1], now) EXCEPT !.key = JWTSecret, !.alg = "RS256"]

RouteHeaders == {<<>>} \cup {Bearer(tok) : tok \in UsableTokens}

\* Tokens that outlived their user: database.Migrate drops and reseeds the
\* tables at every start, while the secret stays, so a token issued to a
\* user registered before the restart still verifies.
OrphanTokens ==
    {GenerateToken([id |-> Len(users) + 1, email |-> "new@example.com",
                    role |-> RoleStudent], t) :
        t \in {x \in {now - JWTExpiry, now} : x >= 0}}

MeHeaders == RouteHeaders \cup {Bearer(tok) : tok \in OrphanTokens}

GateHeaders ==
    LET tok == GenerateToken(users[1], now) IN
    { <<>>, Bearer(tok), Bearer(ForgedKey), Bearer(ForgedNone), Bearer(ForgedRS),
      <<W("Bearer")>>, <<W("Bearer"), SP>>, <<W("Bearer"), SP, W("garbage")>>,
      <<W("bearer"), SP, T(tok)>>, <<W("Basic"), SP, T(tok)>>, <<T(tok)>>,
      <<W("Bearer"), SP, T(tok), SP, W("x")>>, <<W("Bearer"), SP, SP, T(tok)>>,
      <<SP, W("Bearer"), SP, T(tok)>>, <<W("Bearer"), W("x"), SP, T(tok)>>,
      <<W("Bearer"), SP, T(tok), W("x")>> }
    \cup {Bearer(t) : t \in {x \in UsableTokens : x.user_id = 1}}

\* Path ids: a seeded row, no row, no number.
IdInputs == {"1", "5", "abc"}

\* Token strings handed to ValidateToken directly: one that does not parse,
\* and any stored user's claims under any algorithm, key and time stamps.
TokenInputs ==
    {MalformedToken} \cup
    {[GenerateToken(users[i], t) EXCEPT !.alg = a, !.key = k, !.exp = e] :
        i \in 1..Len(users), t \in 0..MaxTime,
        a \in {"HS256", "HS384", "RS256", "none"},
        k \in {JWTSecret, "attacker-key"},
        e \in 0..(MaxTime + JWTExpiry)}

GatePaths ==
    {PathRoot, PathHealth, PathLogin, PathRegister, PathMe,
     <<"api", "auth", "refresh">>, <<"api", "authority">>, <<"healthz">>,
     PathStudents, PathStudent("1"), PathTeachers, PathGroups}

StudentBodies ==
    { [json |-> FALSE, name |-> "", surname |-> "", user_id |-> 0],
      [json |-> TRUE, name |-> "", surname |-> "Lee", user_id |-> 0],
      [json |-> TRUE, name |-> "Ann", surname |-> "Lee", user_id |-> 0],
      [json |-> TRUE, name |-> "Ann", surname |-> "Lee", user_id |-> 2] }

NoGroups == [present |-> FALSE, ids |-> {}]

TeacherBodies ==
    { [json |-> FALSE, name |-> "", surname |-> "", email |-> "", groups |-> NoGroups],
      [json |-> TRUE, name |-> "", surname |-> "", email |-> "", groups |-> NoGroups],
      [json |-> TRUE, name |-> "Ann", surname |-> "Lee", email |-> "ann@example.com",
       groups |-> [present |-> TRUE, ids |-> {1}]] }

GroupBodies ==
    { [json |-> FALSE, name |-> "", code |-> ""],
      [json |-> TRUE, name |-> "Chemistry", code |-> ""],
      [json |-> TRUE, name |-> "Chemistry", code |-> "CHEM-401"] }

\* Update bodies that also name another user as the owner of the record.
OverpostBodies ==
    StudentBodies \cup
    { [json |-> TRUE, name |-> "Ann", surname |-> "Lee", user_id |-> 3],
      [json |-> TRUE, name |-> "Bob", surname |-> "Ray", user_id |-> 1] }

LoginBodies ==
    { [json |-> FALSE, email |-> "", password |-> ""],
      [json |-> TRUE, email |-> "admin@example.com", password |-> "admin123"],
      [json |-> TRUE, email |-> "admin@example.com", password |-> "wrong"],
      [json |-> TRUE, email |-> "new@example.com", password |-> "secret1"],
      [json |-> TRUE, email |-> "nobody@example.com", password |-> "secret1"] }

RegisterBodies ==
    { [json |-> FALSE, email |-> "", password |-> "", role |-> ""] }
    \cup [json : {TRUE}, email : {"new@example.com", "student@example.com"},
          password : {"secret1"},
          role : {RoleAdmin, RoleTeacher, RoleStudent, "guest"}]

(***************************************************************************)
(* Actions.  A request to a protected route goes through AuthMiddleware    *)
(* and, when it lets the request pass, through the route's handler, in one *)
(* step; resp is the response the server has just written, with the        *)
(* request it answers, until it is delivered (Ack).                        *)
(***************************************************************************)
Through(mw, r) ==
    IF mw.next THEN r ELSE Res(mw.status, mw.msg, <<>>, Store, NoData)

SetStore(st) ==
    /\ users' = st.users
    /\ students' = st.students
    /\ teachers' = st.teachers
    /\ groups' = st.groups
    /\ teacherGroups' = st.teacherGroups

InBounds(st) ==
    /\ Len(st.users) <= MaxUsers
    /\ Len(st.students) <= MaxStudents
    /\ Len(st.teachers) <= MaxTeachers
    /\ Len(st.groups) <= MaxGroups

Respond(op, proc, req, mw, r) ==
    /\ resp = NoResp
    /\ InBounds(r.st)
    /\ resp' = [op |-> op, proc |-> proc, req |-> req, next |-> mw.next,
                validated |-> mw.validated, claims |-> mw.claims,
                status |-> r.status, msg |-> r.msg, trace |-> r.trace,
                data |-> r.data]
    /\ SetStore(r.st)

\* A route registered outside the middleware (login, register).
Unguarded == [next |-> TRUE, validated |-> FALSE, claims |-> NoClaims,
              status |-> 0, msg |-> ""]

\* The response is delivered and the request is over.
Ack ==
    /\ resp # NoResp
    /\ resp' = NoResp
    /\ UNCHANGED <<users, students, teachers, groups, teacherGroups, now, reg, conn>>

Tick ==
    /\ resp = NoResp
    /\ now < MaxTime
    /\ now' = now + 1
    /\ UNCHANGED <<users, students, teachers, groups, teacherGroups, reg, resp, conn>>

\* AuthMiddleware in front of an arbitrary next handler, on any path.
Gate ==
    \E path \in GatePaths, h \in GateHeaders :
        LET mw == AuthMiddleware(path, h, now) IN
        /\ Respond("Gate", "", [path |-> path, header |-> h], mw,
                   Through(mw, Res(StatusOK, "", <<>>, Store, NoData)))
        /\ UNCHANGED <<now, reg, conn>>

\* JWTService.ValidateToken called on a token string, at the current time.
Validate ==
    \E tok \in TokenInputs :
        /\ Respond("ValidateToken", "", [path |-> PathRoot, header |-> <<>>, tok |-> tok],
                   Unguarded, Res(0, "", <<>>, Store, ValidateToken(tok, now)))
        /\ UNCHANGED <<now, reg, conn>>

ReqLogin ==
    \E b \in LoginBodies :
        /\ Respond("Login", "", [path |-> PathLogin, header |-> <<>>, body |-> b],
                   Unguarded, Login(Store, b, now))
        /\ UNCHANGED <<now, reg, conn>>

ReqGetCurrentUser ==
    \E h \in MeHeaders :
        LET mw == AuthMiddleware(PathMe, h, now) IN
        /\ Respond("GetCurrentUser", "", [path |-> PathMe, header |-> h], mw,
                   Through(mw, GetCurrentUser(Store, mw.claims)))
        /\ UNCHANGED <<now, reg, conn>>

ReqGetStudents ==
    \E h \in RouteHeaders :
        LET mw == AuthMiddleware(PathStudents, h, now) IN
        /\ Respond("GetStudents", "", [path |-> PathStudents, header |-> h], mw,
                   Through(mw, GetStudents(Store, mw.claims)))
        /\ UNCHANGED <<now, reg, conn>>

ReqCreateStudent ==
    \E h \in RouteHeaders, b \in StudentBodies :
        LET mw == AuthMiddleware(PathStudents, h, now) IN
        /\ Respond("CreateStudent", "",
                   [path |-> PathStudents, header |-> h, body |-> b], mw,
                   Through(mw, CreateStudent(Store, mw.claims, b)))
        /\ UNCHANGED <<now, reg, conn>>

ReqUpdateStudentWith(bodies) ==
    \E h \in RouteHeaders, id \in IdInputs, b \in bodies :
        LET mw == AuthMiddleware(PathStudent(id), h, now) IN
        /\ Respond("UpdateStudent", "",
                   [path |-> PathStudent(id), header |-> h, id |-> id, body |-> b], mw,
                   Through(mw, UpdateStudent(Store, mw.claims, id, b)))
        /\ UNCHANGED <<now, reg, conn>>

ReqUpdateStudent == ReqUpdateStudentWith(StudentBodies)

ReqDeleteStudentOn(ids) ==
    \E h \in RouteHeaders, id \in ids :
        LET mw == AuthMiddleware(PathStudent(id), h, now) IN
        /\ Respond("DeleteStudent", "",
                   [path |-> PathStudent(id), header |-> h, id |-> id], mw,
                   Through(mw, DeleteStudent(Store, mw.claims, id)))
        /\ UNCHANGED <<now, reg, conn>>

ReqDeleteStudent == ReqDeleteStudentOn(IdInputs)

ReqGetTeachers ==
    \E h \in RouteHeaders :
        LET mw == AuthMiddleware(PathTeachers, h, now) IN
        /\ Respond("GetTeachers", "", [path |-> PathTeachers, header |-> h], mw,
                   Through(mw, GetTeachers(Store, mw.claims)))
        /\ UNCHANGED <<now, reg, conn>>

ReqCreateTeacher ==
    \E h \in RouteHeaders, b \in TeacherBodies :
        LET mw == AuthMiddleware(PathTeachers, h, now) IN
        /\ Respond("CreateTeacher", "",
                   [path |-> PathTeachers, header |-> h, body |-> b], mw,
                   Through(mw, CreateTeacher(Store, mw.claims, b)))
        /\ UNCHANGED <<now, reg, conn>>

ReqUpdateTeacher ==
    \E h \in RouteHeaders, id \in IdInputs, b \in TeacherBodies :
        LET mw == AuthMiddleware(PathTeacher(id), h, now) IN
        /\ Respond("UpdateTeacher", "",
                   [path |-> PathTeacher(id), header |-> h, id |-> id, body |-> b], mw,
                   Through(mw, UpdateTeacher(Store, mw.claims, id, b)))
        /\ UNCHANGED <<now, reg, conn>>

ReqDeleteTeacher ==
    \E h \in RouteHeaders, id \in IdInputs :
        LET mw == AuthMiddleware(PathTeacher(id), h, now) IN
        /\ Respond("DeleteTeacher", "",
                   [path |-> PathTeacher(id), header |-> h, id |-> id], mw,
                   Through(mw, DeleteTeacher(Store, mw.claims, id)))
        /\ UNCHANGED <<now, reg, conn>>

\* GET /api/teachers/{id}: no handler is registered for the method.
ReqGetTeacher ==
    \E h \in RouteHeaders, id \in IdInputs :
        /\ TeacherItemRoute("GET") = ""
        /\ Respond("GetTeacher", "",
                   [path |-> PathTeacher(id), header |-> h, id |-> id],
                   MethodNotAllowed,
                   Through(MethodNotAllowed, Res(StatusOK, "", <<>>, Store, NoData)))
        /\ UNCHANGED <<now, reg, conn>>

ReqGetGroups ==
    \E h \in RouteHeaders :
        LET mw == AuthMiddleware(PathGroups, h, now) IN
        /\ Respond("GetGroups", "", [path |-> PathGroups, header |-> h], mw,
                   Through(mw, GetGroups(Store, mw.claims)))
        /\ UNCHANGED <<now, reg, conn>>

ReqCreateGroup ==
    \E h \in RouteHeaders, b \in GroupBodies :
        LET mw == AuthMiddleware(PathGroups, h, now) IN
        /\ Respond("CreateGroup", "",
                   [path |-> PathGroups, header |-> h, body |-> b], mw,
                   Through(mw, CreateGroup(Store, mw.claims, b)))
        /\ UNCHANGED <<now, reg, conn>>

ReqUpdateGroup ==
    \E h \in RouteHeaders, id \in IdInputs, b \in GroupBodies :
        LET mw == AuthMiddleware(PathGroup(id), h, now) IN
        /\ Respond("UpdateGroup", "",
                   [path |-> PathGroup(id), header |-> h, id |-> id, body |-> b], mw,
                   Through(mw, UpdateGroup(Store, mw.claims, id, b)))
        /\ UNCHANGED <<now, reg, conn>>

ReqDeleteGroup ==
    \E h \in RouteHeaders, id \in IdInputs :
        LET mw == AuthMiddleware(PathGroup(id), h, now) IN
        /\ Respond("DeleteGroup", "",
                   [path |-> PathGroup(id), header |-> h, id |-> id], mw,
                   Through(mw, DeleteGroup(Store, mw.claims, id)))
        /\ UNCHANGED <<now, reg, conn>>

(***************************************************************************)
(* A request served in steps, so that two requests are inside the          *)
(* middleware and their handlers at the same time: it arrives, the         *)
(* middleware runs, the next handler runs with the context the middleware  *)
(* gave it, ServeHTTP returns.                                             *)
(***************************************************************************)
ConnPaths == {PathLogin, PathMe}

ConnHeaders ==
    {<<>>, Bearer(ForgedKey), <<W("Basic"), SP, T(GenerateToken(users[1], now))>>}
    \cup {Bearer(tok) : tok \in {x \in UsableTokens : x.user_id \in {1, 2}}}

Arrive(p) ==
    /\ resp = NoResp
    /\ conn[p].pc = "idle"
    /\ \E path \in ConnPaths, h \in ConnHeaders :
          conn' = [conn EXCEPT ![p] =
                      [IdleConn EXCEPT !.pc = "mw", !.path = path, !.header = h]]
    /\ UNCHANGED <<users, students, teachers, groups, teacherGroups, now, reg, resp>>

Authenticate(p) ==
    /\ conn[p].pc = "mw"
    /\ conn' = [conn EXCEPT ![p] = ServeAuth(conn[p], now)]
    /\ UNCHANGED <<users, students, teachers, groups, teacherGroups, now, reg, resp>>

\* next.ServeHTTP(w, r): GetCurrentUser on /api/auth/me, else a handler that
\* answers 200 whatever the context holds.
Handle(p) ==
    /\ conn[p].pc = "handler"
    /\ LET c == conn[p]
           claims == GetUserClaims(c.ctx)
           r == IF c.path = PathMe THEN GetCurrentUser(Store, claims)
                ELSE Res(StatusOK, "", <<>>, Store, NoData)
           mw == [next |-> TRUE, validated |-> c.sets > 0, claims |-> claims,
                  status |-> 0, msg |-> ""]
       IN  /\ Respond(IF c.path = PathMe THEN "GetCurrentUser" ELSE "Gate", p,
                      [path |-> c.path, header |-> c.header], mw, r)
           /\ conn' = [conn EXCEPT ![p].pc = "done",
                                   ![p].written = Append(@, r.status)]
    /\ UNCHANGED <<now, reg>>

\* ServeHTTP has returned: the request and its context are dropped.
Finish(p) ==
    /\ resp = NoResp
    /\ conn[p].pc = "done"
    /\ conn' = [conn EXCEPT ![p] = IdleConn]
    /\ UNCHANGED <<users, students, teachers, groups, teacherGroups, now, reg, resp>>

(***************************************************************************)
(* CreateGroup (handlers/groups.go 116-185) in two steps, the code lookup  *)
(* and the insert, so that another request can write in between.           *)
(***************************************************************************)
\* Lines 116-169: the middleware, the checks and the lookup by code.  The
\* request answers here unless it is about to insert.
CreateGroupStart(p) ==
    /\ conn[p].pc = "idle"
    /\ \E h \in RouteHeaders, b \in GroupBodies :
          LET mw == AuthMiddleware(PathGroups, h, now)
              r == Through(mw, CreateGroup(Store, mw.claims, b))
          IN  IF mw.next /\ r.trace # <<>> /\ r.trace[Len(r.trace)] = "db.Create"
              THEN /\ resp = NoResp
                   /\ conn' = [conn EXCEPT ![p] =
                         [IdleConn EXCEPT !.pc = "db.Create", !.path = PathGroups,
                                          !.header = h, !.ctx = mw.claims,
                                          !.sets = 1, !.nextCalls = 1, !.body = b]]
                   /\ UNCHANGED <<users, students, teachers, groups,
                                  teacherGroups, now, reg, resp>>
              ELSE /\ Respond("CreateGroup", p,
                              [path |-> PathGroups, header |-> h, body |-> b], mw, r)
                   /\ UNCHANGED <<now, reg, conn>>

\* Lines 171-185: the insert and the answer.
CreateGroupInsert(p) ==
    /\ conn[p].pc = "db.Create"
    /\ LET c == conn[p]
           mw == [next |-> TRUE, validated |-> TRUE, claims |-> c.ctx,
                  status |-> 0, msg |-> ""]
       IN  Respond("CreateGroup", p,
                   [path |-> c.path, header |-> c.header, body |-> c.body], mw,
                   InsertGroup(Store, c.body))
    /\ conn' = [conn EXCEPT ![p] = IdleConn]
    /\ UNCHANGED <<now, reg>>

(***************************************************************************)
(* Register (server.go 100-198), one store call per step.  reg[p] is the   *)
(* request goroutine p is serving: its position, the decoded body, the     *)
(* placeholder row it created and the user row it created.                 *)
(***************************************************************************)
RegisterReq(body) == [path |-> PathRegister, header |-> <<>>, body |-> body]

RegisterAnswer(p, body, status, msg, trace, st, data) ==
    /\ Respond("Register", p, RegisterReq(body), Unguarded,
               Res(status, msg, trace, st, data))
    /\ reg' = [reg EXCEPT ![p] = IdleReg]
    /\ UNCHANGED <<now, conn>>

\* Lines 100-131: decode the body, look the email up, hash the password.
RegisterStart(p) ==
    /\ resp = NoResp
    /\ reg[p].pc = "idle"
    /\ \E b \in RegisterBodies :
        LET c == RegisterCheck(Store, b) IN
        IF c.next = ""
        THEN RegisterAnswer(p, b, c.status, c.msg, <<"body", "db.First">>, Store,
                            [placeholder |-> 0])
        ELSE /\ reg' = [reg EXCEPT ![p] = [pc |-> c.next, body |-> b,
                                           linked |-> 0, uid |-> 0]]
             /\ UNCHANGED <<users, students, teachers, groups, teacherGroups,
                            now, resp, conn>>

\* Lines 133-162: create the placeholder Student or Teacher.
RegisterLink(p) ==
    /\ resp = NoResp
    /\ reg[p].pc = "link"
    /\ LET b == reg[p].body IN
       IF b.role = RoleStudent
       THEN /\ Len(students) < MaxStudents
            /\ students' = Append(students, NewStudent(Store, b.email))
            /\ reg' = [reg EXCEPT ![p].pc = "user", ![p].linked = Len(students) + 1]
            /\ UNCHANGED <<users, teachers, groups, teacherGroups, now, resp, conn>>
       ELSE IF TeacherEmailTaken(Store, b.email, 0)
       THEN RegisterAnswer(p, b, StatusInternalServerError, "Internal server error",
                           <<"body", "db.First", "db.Create">>, Store,
                           [placeholder |-> 0])
       ELSE /\ Len(teachers) < MaxTeachers
            /\ teachers' = Append(teachers, NewTeacher(Store, b.email))
            /\ reg' = [reg EXCEPT ![p].pc = "user", ![p].linked = Len(teachers) + 1]
            /\ UNCHANGED <<users, students, groups, teacherGroups, now, resp, conn>>

\* Lines 164-169: create the User; users.email is unique.  A request with no
\* linked record goes straight on to the token and the 201 (lines 179-197).
RegisterUser(p) ==
    /\ resp = NoResp
    /\ reg[p].pc = "user"
    /\ LET b == reg[p].body
           user == NewUser(Store, b, reg[p].linked, now)
       IN
       IF UserByEmail(Store, b.email) # {}
       THEN RegisterAnswer(p, b, StatusInternalServerError, "Internal server error",
                           <<"body", "db.First", "db.Create", "db.Create">>, Store,
                           [placeholder |-> reg[p].linked])
       ELSE IF b.role \in {RoleStudent, RoleTeacher}
       THEN /\ Len(users) < MaxUsers
            /\ users' = Append(users, user)
            /\ reg' = [reg EXCEPT ![p].pc = "backfill", ![p].uid = user.id]
            /\ UNCHANGED <<students, teachers, groups, teacherGroups, now, resp, conn>>
       ELSE RegisterAnswer(p, b, StatusCreated, "",
                           <<"body", "db.First", "db.Create", "token">>,
                           [Store EXCEPT !.users = Append(@, user)],
                           [placeholder |-> 0, token |-> GenerateToken(user, now),
                            user |-> HidePassword(user)])

\* Lines 171-197: back-fill user_id on the placeholder, sign the token, 201.
RegisterBackfill(p) ==
    /\ resp = NoResp
    /\ reg[p].pc = "backfill"
    /\ LET b == reg[p].body
           user == users[reg[p].uid]
       IN RegisterAnswer(p, b, StatusCreated, "",
                         <<"body", "db.First", "db.Create", "db.Create",
                           "db.Update", "token">>,
                         Backfill(Store, b.role, reg[p].linked, user.id),
                         [placeholder |-> reg[p].linked,
                          token |-> GenerateToken(user, now),
                          user |-> HidePassword(user)])

(***************************************************************************)
(* Specifications.  Spec is the student records and the accounts: login,   *)
(* one registration at a time, the student routes.  SpecGate is the        *)
(* middleware under a running clock, in front of an arbitrary handler and  *)
(* of the routes that answer 400/403/404.  SpecRegister is registration    *)
(* with two requests in flight, and an admin deleting the student row a    *)
(* registration has just created.  SpecAdmin is the admin-only routes.     *)
(* SpecToken is the credential service called directly, under a running    *)
(* clock.  SpecConn is two requests going through the middleware and their *)
(* handlers step by step, under a running clock.  SpecTeacher is the       *)
(* teacher routes alone, with the requests the router answers itself.      *)
(* SpecGroup is the group routes with two CreateGroup requests in flight.  *)
(* SpecStudent is the student writes, with update bodies that carry more   *)
(* than a name.                                                            *)
(***************************************************************************)
Next ==
    \/ Ack
    \/ ReqLogin
    \/ RegisterStart("p1")
    \/ RegisterLink("p1")
    \/ RegisterUser("p1")
    \/ RegisterBackfill("p1")
    \/ ReqGetCurrentUser
    \/ ReqGetStudents
    \/ ReqCreateStudent
    \/ ReqUpdateStudent
    \/ ReqDeleteStudent

Spec == Init /\ [][Next]_vars

NextGate ==
    \/ Ack
    \/ Tick
    \/ Gate
    \/ ReqLogin
    \/ ReqGetCurrentUser
    \/ ReqGetStudents
    \/ ReqUpdateStudent
    \/ ReqDeleteStudent

SpecGate == Init /\ [][NextGate]_vars

NextRegister ==
    \/ Ack
    \/ ReqLogin
    \/ \E p \in Procs : RegisterStart(p)
    \/ \E p \in Procs : RegisterLink(p)
    \/ \E p \in Procs : RegisterUser(p)
    \/ \E p \in Procs : RegisterBackfill(p)
    \/ ReqGetCurrentUser
    \/ ReqDeleteStudentOn({"2"})

SpecRegister == Init /\ [][NextRegister]_vars

NextAdmin ==
    \/ Ack
    \/ ReqCreateStudent
    \/ ReqDeleteStudent
    \/ ReqGetTeachers
    \/ ReqCreateTeacher
    \/ ReqUpdateTeacher
    \/ ReqDeleteTeacher
    \/ ReqGetGroups
    \/ ReqCreateGroup
    \/ ReqUpdateGroup
    \/ ReqDeleteGroup

SpecAdmin == Init /\ [][NextAdmin]_vars

NextToken ==
    \/ Ack
    \/ Tick
    \/ ReqLogin
    \/ Validate

SpecToken == Init /\ [][NextToken]_vars

NextConn ==
    \/ Ack
    \/ Tick
    \/ \E p \in Procs : Arrive(p)
    \/ \E p \in Procs : Authenticate(p)
    \/ \E p \in Procs : Handle(p)
    \/ \E p \in Procs : Finish(p)

NextGroup ==
    \/ Ack
    \/ \E p \in Procs : CreateGroupStart(p)
    \/ \E p \in Procs : CreateGroupInsert(p)
    \/ ReqUpdateGroup
    \/ ReqDeleteGroup

SpecGroup == Init /\ [][NextGroup]_vars

NextStudent ==
    \/ Ack
    \/ ReqCreateStudent
    \/ ReqUpdateStudentWith(OverpostBodies)
    \/ ReqDeleteStudent

SpecStudent == Init /\ [][NextStudent]_vars

NextTeacher ==
    \/ Ack
    \/ ReqGetTeachers
    \/ ReqGetTeacher
    \/ ReqCreateTeacher
    \/ ReqUpdateTeacher
    \/ ReqDeleteTeacher

SpecTeacher == Init /\ [][NextTeacher]_vars

\* The middleware neither blocks nor loops: a goroutine inside it goes on.
SpecConn ==
    Init /\ [][NextConn]_vars /\ \A p \in Procs : WF_vars(Authenticate(p))

(***************************************************************************)
(* Properties.  resp is read in the state right after the server answered: *)
(* the clock and the store are then the ones the handler saw, except for   *)
(* the rows the handler itself wrote.                                      *)
(***************************************************************************)
\* The routes mounted behind AuthMiddleware.
GatedOps ==
    {"Gate", "GetCurrentUser", "GetStudents", "CreateStudent", "UpdateStudent",
     "DeleteStudent", "GetTeachers", "CreateTeacher", "UpdateTeacher",
     "DeleteTeacher", "GetGroups", "CreateGroup", "UpdateGroup", "DeleteGroup"}

TeacherGroupOps ==
    {"GetTeachers", "CreateTeacher", "UpdateTeacher", "DeleteTeacher",
     "GetGroups", "CreateGroup", "UpdateGroup", "DeleteGroup"}

AdminOnlyOps == TeacherGroupOps \cup {"CreateStudent", "DeleteStudent"}

\* A handler trace holds a call to the record store.
ReadsStore(trace) ==
    \E i \in 1..Len(trace) :
        trace[i] \in {"db.First", "db.Find", "db.Count", "db.Create", "db.Save",
                      "db.Updates", "db.Update", "db.Delete", "db.Replace"}

\* The header is the word Bearer, one space, and text without a space.
TwoPartBearer(h) ==
    /\ Len(h) >= 2
    /\ h[1] = W("Bearer")
    /\ h[2] = SP
    /\ \A i \in 3..Len(h) : h[i].kind # "sp"

\* C1: on a path that is not public the next handler runs only if the
\* request carries "Bearer <token>" with a token that parses, is signed with
\* an HMAC method under the service's secret and is inside its validity
\* window, and then the context claims are that token's claims; every other
\* request ends with 401 and no handler step.
C1_NextOnlyWithValidToken ==
    (resp.op \in GatedOps /\ resp.req.path \notin publicRoutes) =>
        IF resp.next
        THEN LET h == resp.req.header IN
             /\ Len(h) = 3
             /\ h[1] = W("Bearer")
             /\ h[2] = SP
             /\ h[3].kind = "tok"
             /\ h[3].tok.wf
             /\ h[3].tok.alg \in HMACFamily
             /\ h[3].tok.key = JWTSecret
             /\ h[3].tok.iat <= now
             /\ now < h[3].tok.exp
             /\ resp.claims = ClaimsOf(h[3].tok)
        ELSE /\ resp.status = StatusUnauthorized
             /\ resp.trace = <<>>

\* C1 witness: a protected path answered by the next handler under an
\* admin's validated claims.
C1_Witness ==
    /\ resp.op = "Gate"
    /\ resp.req.path = PathStudents
    /\ resp.next
    /\ resp.validated
    /\ resp.claims.role = RoleAdmin

\* C2: UpdateStudent writes a student row only for an admin, a teacher, or
\* the student whose linked row is the addressed one; a student caller with
\* no linked row, or with a linked row other than the addressed one, gets
\* 403 and the rows stay as they were.
C2_UpdateStudentOwnership ==
    [][ (resp = NoResp /\ resp'.op = "UpdateStudent" /\ resp'.next) =>
          LET c == resp'.claims
              a == Atoi(resp'.req.id)
              linked == {i \in Live(students) : students[i].user_id = c.user_id}
          IN  /\ students' # students =>
                    \/ c.role \in {RoleAdmin, RoleTeacher}
                    \/ c.role = RoleStudent /\ a.ok /\ a.val \in linked
              /\ (c.role = RoleStudent
                    /\ (linked = {} \/ (a.ok /\ a.val \notin linked))) =>
                    (resp'.status = StatusForbidden /\ students' = students)
      ]_vars

\* C3: CreateStudent and DeleteStudent write the student rows only for an
\* admin; any other authenticated caller gets 403 and the rows stay as they
\* were.
C3_StudentCreateDeleteAdminOnly ==
    [][ (resp = NoResp /\ resp'.op \in {"CreateStudent", "DeleteStudent"}
           /\ resp'.next) =>
          /\ students' # students => resp'.claims.role = RoleAdmin
          /\ resp'.claims.role # RoleAdmin =>
                (resp'.status = StatusForbidden /\ students' = students)
      ]_vars

\* C3 witness: a teacher posts a valid student and is answered 403.
C3_Witness ==
    /\ resp.op = "CreateStudent"
    /\ resp.claims.role = RoleTeacher
    /\ resp.req.body.json
    /\ resp.req.body.name # ""
    /\ resp.req.body.surname # ""
    /\ resp.status = StatusForbidden

\* C4: a teacher or group operation calls the record store, or changes it,
\* only for an admin; any other authenticated caller gets 403 with no store
\* call made and the store as it was.
C4_TeacherGroupAdminOnly ==
    [][ (resp = NoResp /\ resp'.op \in TeacherGroupOps /\ resp'.next) =>
          LET touched ==
                \/ ReadsStore(resp'.trace)
                \/ <<users, students, teachers, groups, teacherGroups>>'
                     # <<users, students, teachers, groups, teacherGroups>>
          IN  /\ touched => resp'.claims.role = RoleAdmin
              /\ resp'.claims.role # RoleAdmin =>
                    (resp'.status = StatusForbidden /\ ~touched)
      ]_vars

\* C4 witness: a student asks for the teacher list and is answered 403.
C4_Witness ==
    /\ resp.op = "GetTeachers"
    /\ resp.claims.role = RoleStudent
    /\ resp.status = StatusForbidden

\* The request meets a 403 condition: the role test of an admin-only route,
\* the ownership test of UpdateStudent.
Cond403(r) ==
    IF r.op = "UpdateStudent"
    THEN /\ r.claims.role = RoleStudent
         /\ \/ LinkedStudents(Store, r.claims.user_id) = {}
            \/ /\ Atoi(r.req.id).ok
               /\ Atoi(r.req.id).val \notin LinkedStudents(Store, r.claims.user_id)
    ELSE r.claims.role # RoleAdmin

\* The request meets a 404 condition: its path id names no live row.
Cond404(r) ==
    /\ r.op \in {"UpdateStudent", "DeleteStudent", "UpdateTeacher",
                 "DeleteTeacher", "UpdateGroup", "DeleteGroup"}
    /\ Atoi(r.req.id).ok
    /\ Atoi(r.req.id).val \notin
          Live(CASE r.op \in {"UpdateStudent", "DeleteStudent"} -> students
                 [] r.op \in {"UpdateTeacher", "DeleteTeacher"} -> teachers
                 [] OTHER -> groups)

\* C5: in the student, teacher and group create, update and delete handlers
\* a 400 is never answered while a 403 or a 404 condition holds, and a 404
\* never while a 403 condition holds.
C5_StatusPrecedence ==
    (resp.op \in AdminOnlyOps \cup {"UpdateStudent"}
       /\ resp.op \notin {"GetTeachers", "GetGroups"} /\ resp.next) =>
        /\ resp.status = StatusBadRequest => (~Cond403(resp) /\ ~Cond404(resp))
        /\ resp.status = StatusNotFound => ~Cond403(resp)

\* C6: on an admin-only route an authenticated caller who is not an admin is
\* answered 403 right after the role test: no path id parsed, no body
\* decoded, no store call made.
C6_ForbiddenBeforeAnythingElse ==
    (resp.op \in AdminOnlyOps /\ resp.next /\ resp.claims.role # RoleAdmin) =>
        /\ resp.status = StatusForbidden
        /\ resp.trace = <<"claims", "role">>

\* C6 witness: a teacher puts an undecodable body to a group path whose id
\* is no number and is answered 403.
C6_Witness ==
    /\ resp.op = "UpdateGroup"
    /\ resp.claims.role = RoleTeacher
    /\ resp.req.id = "abc"
    /\ ~resp.req.body.json
    /\ resp.status = StatusForbidden

\* C7: registration is all or nothing: every Student and Teacher row either
\* belongs to a stored User or to a Register request that has not answered
\* yet, and a Register that answered with an error left no placeholder.
C7_RegisterAllOrNothing ==
    /\ \A i \in 1..Len(students) :
          \/ \E u \in 1..Len(users) :
                users[u].role = RoleStudent /\ users[u].student_id = i
          \/ \E p \in Procs :
                /\ reg[p].pc \in {"user", "backfill"}
                /\ reg[p].body.role = RoleStudent
                /\ reg[p].linked = i
    /\ \A i \in 1..Len(teachers) :
          \/ \E u \in 1..Len(users) :
                users[u].role = RoleTeacher /\ users[u].teacher_id = i
          \/ \E p \in Procs :
                /\ reg[p].pc \in {"user", "backfill"}
                /\ reg[p].body.role = RoleTeacher
                /\ reg[p].linked = i
    /\ (resp.op = "Register" /\ resp.status # StatusCreated) =>
          resp.data.placeholder = 0

\* C8: every stored User has one of the three roles, whatever role a
\* Register request carried, and no step changes the role of a stored User.
C8_RolesFixed ==
    [][ \A i \in 1..Len(users') :
          /\ users'[i].role \in Roles
          /\ i <= Len(users) => users'[i].role = users[i].role
      ]_vars

\* C9: on a protected path a header that is absent, empty, or not "Bearer",
\* one space and a token is answered 401 with an error message, with neither
\* ValidateToken nor the next handler called.
C9_MalformedHeaderRejected ==
    (resp.op \in GatedOps /\ resp.req.path \notin publicRoutes
       /\ ~TwoPartBearer(resp.req.header)) =>
        /\ resp.status = StatusUnauthorized
        /\ resp.msg # ""
        /\ ~resp.validated
        /\ ~resp.next

\* C9 witness: a valid admin token under the scheme "bearer" in lower case
\* is answered 401 on the student list.
C9_Witness ==
    /\ resp.op = "Gate"
    /\ resp.req.path = PathStudents
    /\ resp.req.header = <<W("bearer"), SP, T(GenerateToken(users[1], now))>>
    /\ resp.status = StatusUnauthorized
    /\ ~resp.validated

C11_OnlyServerSecretHMAC ==
    resp.op = "ValidateToken" =>
        LET tok == resp.req.tok
            v == resp.data
        IN  /\ v.ok => (tok.wf /\ tok.alg \in HMACFamily /\ tok.key = JWTSecret)
            /\ (tok.alg \notin HMACFamily \/ tok.key # JWTSecret) =>
                  (~v.ok /\ v.errs # {} /\ v.claims = NoClaims)
            /\ v.claims # NoClaims => (v.ok /\ v.claims = ClaimsOf(tok))

\* C11 witness: an admin's claims inside their validity window, signed
\* HS256 with a foreign key, are rejected.
C11_Witness ==
    /\ resp.op = "ValidateToken"
    /\ resp.req.tok.wf
    /\ resp.req.tok.alg = "HS256"
    /\ resp.req.tok.key = "attacker-key"
    /\ resp.req.tok.role = RoleAdmin
    /\ resp.req.tok.iat <= now
    /\ now < resp.req.tok.exp
    /\ ~resp.data.ok

\* C12: ValidateToken rejects every token whose exp is not after the time
\* of validation, and the error says "expired", whether or not the
\* signature verifies.
C12_ExpiredIsExpiryError ==
    (resp.op = "ValidateToken" /\ resp.req.tok.wf /\ resp.req.tok.exp <= now) =>
        /\ ~resp.data.ok
        /\ "expired" \in resp.data.errs

\* C13: a token issued at t carries iat = t and exp = t + JWTExpiry, is
\* accepted at every time from t up to but not including t + JWTExpiry and
\* rejected from then on, whatever else happened in between.
C13_ValidityWindow ==
    /\ (resp.op = "Login" /\ resp.status = StatusOK) =>
          /\ resp.data.token.iat = now
          /\ resp.data.token.exp = now + JWTExpiry
    /\ (resp.op = "ValidateToken"
          /\ \E i \in 1..Len(users), t \in 0..now :
                resp.req.tok = GenerateToken(users[i], t)) =>
          (resp.data.ok <=> now < resp.req.tok.iat + JWTExpiry)

\* C13 witness: a token issued before the clock moved is still accepted in
\* the last hour of its window.
C13_Witness ==
    /\ resp.op = "ValidateToken"
    /\ resp.req.tok = GenerateToken(users[2], now - JWTExpiry + 1)
    /\ resp.req.tok.iat < now
    /\ resp.data.ok

\* C14: a Login with the email and password of a stored user answers 200
\* with a token that ValidateToken accepts at every time before its expiry,
\* yielding that user's id, email and role.
C14_LoginTokenRoundTrip ==
    (resp.op = "Login" /\ resp.req.body.json) =>
        \A i \in 1..Len(users) :
            (users[i].email = resp.req.body.email
               /\ users[i].password = HashPassword(resp.req.body.password)) =>
                /\ resp.status = StatusOK
                /\ \A t \in now..(now + JWTExpiry - 1) :
                      LET v == ValidateToken(resp.data.token, t) IN
                      /\ v.ok
                      /\ v.claims.user_id = users[i].id
                      /\ v.claims.email = users[i].email
                      /\ v.claims.role = users[i].role

\* C14 witness: the user a Register created logs in and gets a token.
C14_Witness ==
    /\ resp.op = "Login"
    /\ resp.status = StatusOK
    /\ resp.req.body.email = "new@example.com"
    /\ resp.data.user.id = 4
    /\ resp.data.token.user_id = 4

\* C15: a Login with an unknown email and a Login with a known email and a
\* wrong password get one and the same answer, 401 "Invalid email or
\* password", and no token.
C15_LoginFailuresAlike ==
    (resp.op = "Login" /\ resp.req.body.json
       /\ \A i \in 1..Len(users) :
             \/ users[i].email # resp.req.body.email
             \/ users[i].password # HashPassword(resp.req.body.password)) =>
        /\ resp.status = StatusUnauthorized
        /\ resp.msg = "Invalid email or password"
        /\ resp.data = NoData

\* C15 witness: the admin's email with a wrong password is answered 401.
C15_Witness ==
    /\ resp.op = "Login"
    /\ resp.req.body.email = "admin@example.com"
    /\ resp.req.body.password = "wrong"
    /\ resp.status = StatusUnauthorized

\* C16: a Register whose email belongs to a stored User when the request
\* looks it up is answered 409 in that step, with the store as it was and no
\* token; no such request goes on to create anything.
C16_RegisterDuplicateEmail ==
    [][ \A p \in Procs :
          /\ (reg[p].pc = "idle" /\ reg'[p].pc # "idle") =>
                UserByEmail(Store, reg'[p].body.email) = {}
          /\ (reg[p].pc = "idle" /\ resp = NoResp /\ resp'.op = "Register"
                /\ resp'.proc = p /\ resp'.req.body.json
                /\ UserByEmail(Store, resp'.req.body.email) # {}) =>
                /\ resp'.status = StatusConflict
                /\ resp'.data = [placeholder |-> 0]
                /\ <<users, students, teachers, groups, teacherGroups>>'
                     = <<users, students, teachers, groups, teacherGroups>>
      ]_vars

\* C16 witness: a Register with the seeded student's email is answered 409.
C16_Witness ==
    /\ resp.op = "Register"
    /\ resp.req.body.email = "student@example.com"
    /\ resp.status = StatusConflict

\* C17: a Register with role student or teacher that is answered 201 carries
\* a token and the user with that role and no password, and in the store the
\* user's student_id (teacher_id) names a row whose user_id is the user's id.
C17_RegisterLinkBothWays ==
    (resp.op = "Register" /\ resp.status = StatusCreated
       /\ resp.req.body.role \in {RoleStudent, RoleTeacher}) =>
        LET u == resp.data.user.id IN
        /\ resp.data.token.user_id = u
        /\ resp.data.user.role = resp.req.body.role
        /\ resp.data.user.password = <<>>
        /\ IF resp.req.body.role = RoleStudent
           THEN /\ users[u].student_id \in 1..Len(students)
                /\ students[users[u].student_id].user_id = u
           ELSE /\ users[u].teacher_id \in 1..Len(teachers)
                /\ teachers[users[u].teacher_id].user_id = u

\* C18: GET /api/auth/me under a token inside its validity window is let
\* through whether or not its user exists, and answers 404 when no user has
\* the claims' user id and otherwise 200 with that user's record, password
\* removed; under no header or any other token it answers 401.
C18_MeFollowsClaims ==
    resp.op = "GetCurrentUser" =>
        LET h == resp.req.header
            good == /\ Len(h) = 3
                    /\ h[1] = W("Bearer")
                    /\ h[2] = SP
                    /\ h[3].kind = "tok"
                    /\ h[3].tok.wf
                    /\ h[3].tok.alg \in HMACFamily
                    /\ h[3].tok.key = JWTSecret
                    /\ h[3].tok.iat <= now
                    /\ now < h[3].tok.exp
        IN  IF ~good THEN resp.status = StatusUnauthorized
            ELSE /\ resp.next
                 /\ IF h[3].tok.user_id \notin 1..Len(users)
                    THEN resp.status = StatusNotFound
                    ELSE /\ resp.status = StatusOK
                         /\ resp.data.user =
                               [users[h[3].tok.user_id] EXCEPT !.password = <<>>]

\* C18 witness: a token inside its window whose user is not in the store is
\* let through by the middleware and answered 404.
C18_Witness ==
    /\ resp.op = "GetCurrentUser"
    /\ resp.next
    /\ resp.validated
    /\ resp.claims.user_id \notin 1..Len(users)
    /\ resp.status = StatusNotFound

\* The fixed message texts of each error status.
ErrorMessages ==
    [s \in {StatusBadRequest, StatusUnauthorized, StatusForbidden, StatusNotFound,
            StatusConflict, StatusInternalServerError} |->
        CASE s = StatusBadRequest ->
                {"Invalid request body", "Invalid JSON format", "Invalid student ID",
                 "Invalid teacher ID", "Invalid group ID", "Invalid group IDs",
                 "Cannot read request body", "Name and surname are required",
                 "Name and code are required", "Name, surname and email are required"}
          [] s = StatusUnauthorized ->
                {"Authorization header required", "Invalid authorization format",
                 "Invalid or expired token", "Not authenticated",
                 "Invalid email or password"}
          [] s = StatusForbidden ->
                {"Insufficient permissions", "Student record not found",
                 "Can only edit your own data"}
          [] s = StatusNotFound ->
                {"Student not found", "Teacher not found", "Group not found",
                 "User not found"}
          [] s = StatusConflict ->
                {"User with this email already exists",
                 "Teacher with this email already exists",
                 "Group with this code already exists",
                 "Code already in use by another group"}
          [] OTHER ->
                {"Internal server error", "Failed to create student in database",
                 "Failed to create teacher in database",
                 "Failed to create group in database", "Failed to update groups",
                 "Failed to update teacher"}]

C20_ListSameForAll ==
    (resp.op = "GetStudents" /\ resp.next) =>
        /\ resp.status = StatusOK
        /\ resp.data = [items |-> [i \in Live(students) |-> students[i]],
                        total |-> Cardinality(Live(students))]

\* C20 witness: a student caller is shown a row that is not theirs.
C20_Witness ==
    /\ resp.op = "GetStudents"
    /\ resp.claims.role = RoleStudent
    /\ resp.status = StatusOK
    /\ \E i \in DOMAIN resp.data.items :
          resp.data.items[i].user_id # resp.claims.user_id

\* The claims ValidateToken yields for the token in a request's header; none
\* on a path the middleware lets through unchecked.
ClaimsOfRequest(c) ==
    IF isPublic(c.path) THEN NoClaims ELSE ClaimsOf(TokenOf(Split(c.header)[2]))

\* C21: whatever other requests are in flight, the claims a handler reads
\* from its request's context are the ones of the token in that request's
\* header; a request's context gets claims at most once, and once the
\* middleware has passed the request on its context no longer changes.
C21_ClaimsStayWithRequest ==
    /\ [](\A p \in Procs :
            conn[p].nextCalls > 0 =>
                /\ conn[p].ctx = ClaimsOfRequest(conn[p])
                /\ conn[p].sets <= 1)
    /\ []((resp # NoResp /\ resp.proc \in Procs /\ resp.op # "Register") =>
            resp.claims = ClaimsOfRequest(resp.req))
    /\ [][ \A p \in Procs :
             (conn[p].pc \in {"handler", "done"} /\ conn'[p].pc # "idle") =>
                 /\ conn'[p].ctx = conn[p].ctx
                 /\ conn'[p].sets = conn[p].sets
         ]_vars

\* C21 witness: the admin's request has been answered from the admin's
\* claims while a student's authenticated request waits for its handler.
C21_Witness ==
    /\ resp.op = "GetCurrentUser"
    /\ resp.proc = "p1"
    /\ resp.status = StatusOK
    /\ resp.claims.user_id = 1
    /\ conn["p2"].pc = "handler"
    /\ conn["p2"].ctx.user_id = 2

\* The three ways a request leaves the middleware.
Bypassed(c) ==
    /\ isPublic(c.path)
    /\ c.nextCalls = 1
    /\ c.sets = 0 /\ c.ctx = NoClaims
    /\ StatusUnauthorized \notin {c.written[i] : i \in 1..Len(c.written)}

Authenticated(c) ==
    /\ ~isPublic(c.path)
    /\ c.nextCalls = 1
    /\ c.sets = 1 /\ c.ctx # NoClaims
    /\ StatusUnauthorized \notin {c.written[i] : i \in 1..Len(c.written)}

Rejected(c) ==
    /\ ~isPublic(c.path)
    /\ c.nextCalls = 0
    /\ c.sets = 0 /\ c.ctx = NoClaims
    /\ c.written = <<StatusUnauthorized>>

Outcomes(c) ==
    {o \in {"bypassed", "AUTHENTICATED", "REJECTED"} :
        \/ o = "bypassed" /\ Bypassed(c)
        \/ o = "AUTHENTICATED" /\ Authenticated(c)
        \/ o = "REJECTED" /\ Rejected(c)}

\* C24: a request that entered the middleware leaves it, in exactly one of
\* three ways: let through on a public path (next called once), let through
\* with claims (next called once), or answered with one 401 (next not
\* called).  The way it left never changes afterwards: next is not called a
\* second time, and a rejected request does nothing more until it is over.
C24_OneOutcome ==
    /\ [](\A p \in Procs :
            conn[p].pc \in {"handler", "done"} =>
                /\ Cardinality(Outcomes(conn[p])) = 1
                /\ Len(conn[p].written) = IF conn[p].pc = "done" THEN 1 ELSE 0)
    /\ [][ \A p \in Procs :
             /\ (conn[p].pc \in {"handler", "done"} /\ conn'[p].pc # "idle") =>
                   /\ Outcomes(conn'[p]) = Outcomes(conn[p])
                   /\ conn'[p].nextCalls = conn[p].nextCalls
             /\ conn[p].pc = "done" => conn'[p] \in {conn[p], IdleConn}
         ]_vars
    /\ \A p \in Procs :
          (conn[p].pc = "mw") ~> (conn[p].pc \in {"handler", "done"})

\* C24 witness: one request was rejected and is over while the other, let
\* through with claims, is inside its handler.
C24_Witness ==
    /\ conn["p1"].pc = "done"
    /\ Rejected(conn["p1"])
    /\ conn["p2"].pc = "handler"
    /\ Authenticated(conn["p2"])

\* The request carries a token Login has issued to the seeded admin.
AdminHeader(h) == \E t \in 0..now : h = Bearer(GenerateToken(users[1], t))

\* The request is addressed to a teacher row an admin's delete has removed.
OnDeletedTeacher(req) ==
    /\ Atoi(req.id).ok
    /\ Atoi(req.id).val \in 1..Len(teachers)
    /\ teachers[Atoi(req.id).val].deleted

C27_FailedUpdateChangesNothing ==
    [][ (resp = NoResp /\ resp'.op = "UpdateTeacher"
           /\ resp'.status \in {StatusBadRequest, StatusNotFound, StatusConflict,
                                StatusInternalServerError}) =>
          /\ teachers' = teachers
          /\ teacherGroups' = teacherGroups
      ]_vars

\* C23: what ValidateToken yields for a token it accepts is what it yields
\* for that token at every other time inside the token's validity window,
\* and a call leaves the record store, the clock and the requests in flight
\* as they were.
C23_ValidateTokenPure ==
    /\ []((resp.op = "ValidateToken" /\ resp.data.ok) =>
            \A t \in 0..MaxTime :
                (resp.req.tok.iat <= t /\ t < resp.req.tok.exp) =>
                    ValidateToken(resp.req.tok, t) = resp.data)
    /\ [][ (resp = NoResp /\ resp'.op = "ValidateToken") =>
             /\ <<users, students, teachers, groups, teacherGroups>>'
                  = <<users, students, teachers, groups, teacherGroups>>
             /\ <<now, reg, conn>>' = <<now, reg, conn>>
         ]_vars

\* C23 witness: a token is accepted one hour after its issue, inside a
\* window that holds more than one time.
C23_Witness ==
    /\ resp.op = "ValidateToken"
    /\ resp.data.ok
    /\ resp.data.claims.user_id = 3
    /\ now = resp.req.tok.iat + 1
    /\ resp.req.tok.exp > now + 1

\* A Register request finds its email held by a User another request has
\* stored since it looked the email up.
LostRace(p) ==
    /\ reg[p].pc \in {"link", "user", "backfill"}
    /\ UserByEmail(Store, reg[p].body.email) \ {reg[p].uid} # {}

\* C25: no email is ever held by two Users, and a Register request that found
\* its email free ends with 201 unless another request took the email in the
\* meantime; then it ends with 409 and leaves no Student or Teacher row of
\* its own behind.
C25_RegisterRaceOneWinner ==
    /\ [](\A i, j \in 1..Len(users) :
            users[i].email = users[j].email => i = j)
    /\ [][ \A p \in Procs :
             (resp = NoResp /\ resp'.op = "Register" /\ resp'.proc = p
                /\ reg[p].pc # "idle") =>
                 \/ /\ resp'.status = StatusCreated
                    /\ ~LostRace(p)
                 \/ /\ resp'.status = StatusConflict
                    /\ \/ reg[p].linked = 0
                       \/ /\ reg[p].body.role = RoleStudent
                          /\ students'[reg[p].linked].deleted
                       \/ /\ reg[p].body.role = RoleTeacher
                          /\ teachers'[reg[p].linked].deleted
         ]_vars

\* The group a request would give its code to: 0 for a create.
GroupTarget(r) == IF r.op = "UpdateGroup" THEN Atoi(r.req.id).val ELSE 0

\* An admin's well-formed create, or update of an existing group, whose code
\* is the code of another existing group.
WouldShareCode(r) ==
    /\ r.op \in {"CreateGroup", "UpdateGroup"}
    /\ r.claims.role = RoleAdmin
    /\ r.req.body.json /\ r.req.body.name # "" /\ r.req.body.code # ""
    /\ r.op = "UpdateGroup" =>
          Atoi(r.req.id).ok /\ Atoi(r.req.id).val \in Live(groups)
    /\ \E i \in Live(groups) :
          i # GroupTarget(r) /\ groups[i].code = r.req.body.code

\* C28: no two existing groups ever share a code, and a create or update
\* that would give a group the code of another existing group is answered
\* 409 and changes nothing, also when requests run concurrently.
C28_GroupCodesUnique ==
    /\ [](\A i, j \in Live(groups) : groups[i].code = groups[j].code => i = j)
    /\ [][ (resp = NoResp /\ resp' # NoResp /\ WouldShareCode(resp')) =>
             /\ resp'.status = StatusConflict
             /\ <<users, students, teachers, groups, teacherGroups>>'
                  = <<users, students, teachers, groups, teacherGroups>>
         ]_vars

\* C26: an UpdateStudent answered 200 for path id p has set the name and
\* surname of student p to the body's and changed nothing else: p's id,
\* email, group_id and user_id, the other student rows and the other tables
\* are as before, whatever else the body names.
C26_UpdateStudentFrame ==
    [][ (resp = NoResp /\ resp'.op = "UpdateStudent"
           /\ resp'.status = StatusOK) =>
          LET id == Atoi(resp'.req.id).val IN
          /\ id \in 1..Len(students)
          /\ students' = [students EXCEPT ![id].name = resp'.req.body.name,
                                          ![id].surname = resp'.req.body.surname]
          /\ <<users, teachers, groups, teacherGroups>>'
               = <<users, teachers, groups, teacherGroups>>
      ]_vars

\* C26 witness: an update of student 1 whose body named user 3 as owner was
\* answered 200, and the record still belongs to user 2.
C26_Witness ==
    /\ resp.op = "UpdateStudent"
    /\ resp.status = StatusOK
    /\ resp.req.id = "1"
    /\ resp.req.body.user_id = 3
    /\ students[1].name = "Ann"
    /\ students[1].user_id = 2

\* The caller is a student-role user whose student record has been deleted.
OwnRecordDeleted(r) ==
    /\ r.next
    /\ r.claims.role = RoleStudent
    /\ \E i \in 1..Len(students) :
          students[i].deleted /\ students[i].user_id = r.claims.user_id

\* C29: once the student record of a student-role user is deleted, every
\* UpdateStudent that user sends with a valid token and a numeric path id is
\* answered 403 and changes nothing, and an admin's further DeleteStudent of
\* the deleted id is answered 404 and changes nothing.
C29_AfterStudentDelete ==
    [][ /\ (resp = NoResp /\ resp'.op = "UpdateStudent"
              /\ OwnRecordDeleted(resp') /\ Atoi(resp'.req.id).ok) =>
             /\ resp'.status = StatusForbidden
             /\ <<users, students, teachers, groups, teacherGroups>>'
                  = <<users, students, teachers, groups, teacherGroups>>
        /\ (resp = NoResp /\ resp'.op = "DeleteStudent"
              /\ resp'.claims.role = RoleAdmin
              /\ Atoi(resp'.req.id).ok
              /\ Atoi(resp'.req.id).val \in 1..Len(students)
              /\ students[Atoi(resp'.req.id).val].deleted) =>
             /\ resp'.status = StatusNotFound
             /\ <<users, students, teachers, groups, teacherGroups>>'
                  = <<users, students, teachers, groups, teacherGroups>>
      ]_vars

\* C29 witness: the seeded student user, whose record 1 was deleted, is
\* denied an update of record 1.
C29_Witness ==
    /\ resp.op = "UpdateStudent"
    /\ resp.claims.user_id = 2
    /\ resp.req.id = "1"
    /\ resp.req.body.json
    /\ students[1].deleted
    /\ resp.status = StatusForbidden

\* C30: middleware.IsPublicRoute and the public-route test inside
\* AuthMiddleware classify every request path alike.
C30_SameClassification ==
    resp.op \in GatedOps =>
        (IsPublicRoute(resp.req.path) <=> isPublic(resp.req.path))
====
